---------------------------- MODULE Spec2Model ----------------------------
(***************************************************************************)
(* Model of src/app.py (Enhanced Internal Backlink Analyzer): the          *)
(* ContentAnalyzer index, calculate_enhanced_relevance, the diversity      *)
(* penalizer and the two opportunity finders.                              *)
(*                                                                         *)
(* Scores.  A Python float is modelled bit for bit as an IEEE-754 binary64 *)
(* number: every product, sum, difference and quotient is rounded to the   *)
(* nearest double, ties to even, as the interpreter rounds it.  Every      *)
(* float of the program is >= 0 (scores, weights, multipliers).            *)
(***************************************************************************)
EXTENDS Integers, Sequences, FiniteSets, TLC

VARIABLES
    content_cache,    \* url -> content record, filled in the order of all_urls
    content_analyzer, \* the ContentAnalyzer of the run
    phase,            \* how far the run is: "collect", "analyze", "find",
                      \* "outbound" (outbound list computed), "inbound" (both),
                      \* "ended" (an exception ended the run)
    hash_secret,      \* what the str-hash salt of the running process has fixed
    random_state,     \* state of the process-wide generator of module random
    args,             \* new_url, min_relevance and max_results of the finder calls
    outbound,         \* outcome of find_enhanced_outbound_opportunities
    inbound,          \* outcome of find_enhanced_inbound_opportunities
    first_run,        \* the inbound outcome of an earlier process, same corpus
    last_fit,         \* the last fit_content call on content_analyzer: its keys
                      \* and how it ended ("never", "skipped", "failed", "fitted")
    last_query,       \* the last get_similarity call and what it returned
    scored,           \* the last calculate_enhanced_relevance call studied on
                      \* its own: its arguments and the dict it returned
    opportunities,  \* the list handed to / returned by apply_diversity_penalties
    max_per_silo,   \* the max_per_silo argument of the calls on that list
    passes,         \* how many times apply_diversity_penalties ran on the list
    before,         \* the list as it was when the last pass started
    resorted        \* TRUE when the caller re-sorted the list since the last pass

penVars == <<opportunities, max_per_silo, passes, before, resorted>>

findVars == <<content_cache, phase, hash_secret, random_state,
              args, outbound, inbound, first_run>>

indexVars == <<content_analyzer, last_fit, last_query>>

runVars == <<findVars, indexVars>>

vars == <<runVars, penVars, scored>>

---------------------------------------------------------------------------
(* Bounds of the model *)

\* longest opportunity list handed to the penalizer on its own
MaxOpps == 6
\* most passes of the penalizer over one list
MaxPasses == 2
\* number of URLs of the corpus (the pivot among them)
MaxUrls == 7
\* largest max_results the number input of the sidebar is set to
MaxResults == 6
\* most requests of one collection that fail
MaxFailed == 1
\* most documents handed to fit_content when the index is studied on its own
MaxDocs == 3

---------------------------------------------------------------------------
(* Python floats.  A double is [m, e]: the value m * 2^e with m a 53-bit   *)
(* mantissa written as four base-2^14 digits, lowest first; 0.0 is the     *)
(* record with the empty mantissa.  Intermediate results are "wide": eight *)
(* digits, exact, and FRound rounds them once.                             *)

Limb == 16384
LimbBits == 14
\* bits of a binary64 mantissa
Precision == 53

Max(a, b) == IF a >= b THEN a ELSE b
Min(a, b) == IF a <= b THEN a ELSE b

PowersOfTwo == <<1, 2, 4, 8, 16, 32, 64, 128, 256, 512, 1024, 2048, 4096, 8192, 16384>>
Pow2(k) == PowersOfTwo[k + 1]

\* number of bits of a digit
RECURSIVE BitLen(_)
BitLen(n) == IF n = 0 THEN 0 ELSE 1 + BitLen(n \div 2)

\* the i-th digit of a, 0 outside of it
LimbAt(a, i) == IF i >= 1 /\ i <= Len(a) THEN a[i] ELSE 0

\* index of the highest non-zero digit among the first i
RECURSIVE WideTop(_, _)
WideTop(a, i) == IF i = 0 THEN 0 ELSE IF a[i] # 0 THEN i ELSE WideTop(a, i - 1)

WideBitLen(a) == LET t == WideTop(a, Len(a)) IN IF t = 0 THEN 0 ELSE LimbBits * (t - 1) + BitLen(a[t])

\* the j-th digit of a shifted right by s bits
WideBits(a, s, j) ==
    LET q == s \div LimbBits
        r == s % LimbBits
    IN  IF r = 0 THEN LimbAt(a, j + q)
        ELSE (LimbAt(a, j + q) \div Pow2(r)) + (LimbAt(a, j + q + 1) % Pow2(r)) * Pow2(LimbBits - r)

\* a shifted left by d bits
WideShl(a, d) ==
    LET q == d \div LimbBits
        lo == Pow2(d % LimbBits)
        hi == Limb \div lo
        S(i) == ((LimbAt(a, i - q) % hi) * lo) + (LimbAt(a, i - q - 1) \div hi)
    IN  IF d = 0 THEN a ELSE <<S(1), S(2), S(3), S(4), S(5), S(6), S(7), S(8)>>


\* a + b
WideAdd(a, b) ==
    LET c1 == LimbAt(a, 1) + LimbAt(b, 1)
        c2 == LimbAt(a, 2) + LimbAt(b, 2) + (c1 \div Limb)
        c3 == LimbAt(a, 3) + LimbAt(b, 3) + (c2 \div Limb)
        c4 == LimbAt(a, 4) + LimbAt(b, 4) + (c3 \div Limb)
        c5 == LimbAt(a, 5) + LimbAt(b, 5) + (c4 \div Limb)
        c6 == LimbAt(a, 6) + LimbAt(b, 6) + (c5 \div Limb)
        c7 == LimbAt(a, 7) + LimbAt(b, 7) + (c6 \div Limb)
        c8 == LimbAt(a, 8) + LimbAt(b, 8) + (c7 \div Limb)
    IN  <<c1 % Limb, c2 % Limb, c3 % Limb, c4 % Limb, c5 % Limb, c6 % Limb, c7 % Limb, c8>>

\* a - b, for a >= b
WideSub(a, b) ==
    LET d1 == LimbAt(a, 1) - LimbAt(b, 1)
        d2 == LimbAt(a, 2) - LimbAt(b, 2) - (IF d1 < 0 THEN 1 ELSE 0)
        d3 == LimbAt(a, 3) - LimbAt(b, 3) - (IF d2 < 0 THEN 1 ELSE 0)
        d4 == LimbAt(a, 4) - LimbAt(b, 4) - (IF d3 < 0 THEN 1 ELSE 0)
        d5 == LimbAt(a, 5) - LimbAt(b, 5) - (IF d4 < 0 THEN 1 ELSE 0)
        d6 == LimbAt(a, 6) - LimbAt(b, 6) - (IF d5 < 0 THEN 1 ELSE 0)
        d7 == LimbAt(a, 7) - LimbAt(b, 7) - (IF d6 < 0 THEN 1 ELSE 0)
        d8 == LimbAt(a, 8) - LimbAt(b, 8) - (IF d7 < 0 THEN 1 ELSE 0)
    IN  <<(d1 + Limb) % Limb, (d2 + Limb) % Limb, (d3 + Limb) % Limb, (d4 + Limb) % Limb, (d5 + Limb) % Limb, (d6 + Limb) % Limb, (d7 + Limb) % Limb, d8>>

\* the exact product of two mantissas
WideMul(a, b) ==
    LET c1 == a[1] * b[1]
        c2 == a[1] * b[2] + a[2] * b[1] + (c1 \div Limb)
        c3 == a[1] * b[3] + a[2] * b[2] + a[3] * b[1] + (c2 \div Limb)
        c4 == a[1] * b[4] + a[2] * b[3] + a[3] * b[2] + a[4] * b[1] + (c3 \div Limb)
        c5 == a[2] * b[4] + a[3] * b[3] + a[4] * b[2] + (c4 \div Limb)
        c6 == a[3] * b[4] + a[4] * b[3] + (c5 \div Limb)
        c7 == a[4] * b[4] + (c6 \div Limb)
    IN  <<c1 % Limb, c2 % Limb, c3 % Limb, c4 % Limb, c5 % Limb, c6 % Limb, c7 % Limb, c7 \div Limb>>

\* floor(a * 2^70 / b) for integers 0 <= a < 2^28, 0 < b < 2^17, and whether
\* the division is exact
WideDivInt(a, b) ==
    LET n7 == a \div Limb
        r7 == n7 % b
        n6 == r7 * Limb + (a % Limb)
        r6 == n6 % b
        r5 == (r6 * Limb) % b
        r4 == (r5 * Limb) % b
        r3 == (r4 * Limb) % b
        r2 == (r3 * Limb) % b
        r1 == (r2 * Limb) % b
    IN  [quot |-> <<(r2 * Limb) \div b, (r3 * Limb) \div b, (r4 * Limb) \div b, (r5 * Limb) \div b, (r6 * Limb) \div b, n6 \div b, n7 \div b, 0>>, exact |-> r1 = 0]

\* 0.0
FZero == [m |-> <<>>, e |-> 0]

\* m + 1
MantissaUp(m) ==
    IF m[1] + 1 < Limb THEN <<m[1] + 1, m[2], m[3], m[4]>>
    ELSE IF m[2] + 1 < Limb THEN <<0, m[2] + 1, m[3], m[4]>>
    ELSE IF m[3] + 1 < Limb THEN <<0, 0, m[3] + 1, m[4]>>
    ELSE <<0, 0, 0, m[4] + 1>>

\* the k lowest bits of a are all 0
WideLowZero(a, k) ==
    /\ \A i \in 1..(k \div LimbBits) : a[i] = 0
    /\ LimbAt(a, k \div LimbBits + 1) % Pow2(k % LimbBits) = 0

\* the double nearest to a * 2^e, ties to even; sticky tells that the exact
\* value lies above a * 2^e by less than 2^e
FRound(a, e, sticky) ==
    LET \* the mantissa m of the bits above the lowest s, carried into 54 bits or not
        Carried(m, s) ==
            IF m[4] = Pow2(Precision - 3 * LimbBits) THEN [m |-> <<0, 0, 0, m[4] \div 2>>, e |-> e + s + 1]
            ELSE [m |-> m, e |-> e + s]
        \* q, the bits above the lowest s, rounded up or kept
        Nearest(q, s) ==
            Carried(IF /\ WideBits(a, s - 1, 1) % 2 = 1
                       /\ (sticky \/ q[1] % 2 = 1 \/ ~WideLowZero(a, s - 1))
                    THEN MantissaUp(q) ELSE q, s)
        \* a has len bits, s of them more than a mantissa holds
        Shifted(len, s) ==
            IF len = 0 THEN FZero
            ELSE IF s <= 0 THEN [m |-> SubSeq(WideShl(a, 0 - s), 1, 4), e |-> e + s]
            ELSE Nearest(<<WideBits(a, s, 1), WideBits(a, s, 2), WideBits(a, s, 3), WideBits(a, s, 4)>>, s)
        Sized(len) == Shifted(len, len - Precision)
    IN  Sized(WideBitLen(a))

\* a / b on two ints (true division), and the decimal literal a/b
FDivInt(a, b) == LET d == WideDivInt(a, b) IN FRound(d.quot, 0 - 5 * LimbBits, ~d.exact)

\* float(n), for 0 <= n < 2^28
FFromInt(n) == FRound(<<n % Limb, n \div Limb, 0, 0, 0, 0, 0, 0>>, 0, FALSE)

\* x * y
FMul(x, y) == IF x.m = <<>> \/ y.m = <<>> THEN FZero ELSE FRound(WideMul(x.m, y.m), x.e + y.e, FALSE)

\* -1, 0 or 1 as x < y, x == y or x > y
FCmp(x, y) ==
    IF x.m = <<>> THEN (IF y.m = <<>> THEN 0 ELSE 0 - 1)
    ELSE IF y.m = <<>> THEN 1
    ELSE IF x.e # y.e THEN (IF x.e < y.e THEN 0 - 1 ELSE 1)
    ELSE IF x.m[4] # y.m[4] THEN (IF x.m[4] < y.m[4] THEN 0 - 1 ELSE 1)
    ELSE IF x.m[3] # y.m[3] THEN (IF x.m[3] < y.m[3] THEN 0 - 1 ELSE 1)
    ELSE IF x.m[2] # y.m[2] THEN (IF x.m[2] < y.m[2] THEN 0 - 1 ELSE 1)
    ELSE IF x.m[1] # y.m[1] THEN (IF x.m[1] < y.m[1] THEN 0 - 1 ELSE 1)
    ELSE 0

FLess(x, y) == FCmp(x, y) < 0

FLeq(x, y) == FCmp(x, y) <= 0

\* x + y
FAdd(x, y) ==
    IF x.m = <<>> THEN y
    ELSE IF y.m = <<>> THEN x
    ELSE IF x.e < y.e THEN (IF y.e - x.e > Precision + 2 THEN y ELSE FRound(WideAdd(WideShl(y.m, y.e - x.e), x.m), x.e, FALSE))
    ELSE IF x.e - y.e > Precision + 2 THEN x
    ELSE FRound(WideAdd(WideShl(x.m, x.e - y.e), y.m), y.e, FALSE)

\* x - y, for x >= y
FSub(x, y) ==
    IF y.m = <<>> \/ x.e - y.e > Precision + 2 THEN x
    ELSE FRound(WideSub(WideShl(x.m, x.e - y.e), y.m), y.e, FALSE)

\* abs(x - y)
FAbsDiff(x, y) == IF FLess(x, y) THEN FSub(y, x) ELSE FSub(x, y)

\* round(x, 2): the decimal with two places nearest to the exact value of x,
\* ties to even, as its number of hundredths
FRound2(x) ==
    IF x.m = <<>> \/ 0 - x.e > 4 * LimbBits + Precision THEN 0
    ELSE LET \* q is floor(t / 2^s), t the exact 100 * x.m
             Nearest(t, s, q) ==
                 IF /\ WideBits(t, s - 1, 1) % 2 = 1
                    /\ (q % 2 = 1 \/ ~WideLowZero(t, s - 1))
                 THEN q + 1 ELSE q
             Hundredfold(t, s) ==
                 Nearest(t, s, WideBits(t, s, 1) + Limb * WideBits(t, s, 2))
         IN  Hundredfold(WideMul(x.m, <<100, 0, 0, 0>>), 0 - x.e)

\* the double round(x, 2) returns for a value of h hundredths
FHundredths(h) == FDivInt(h, 100)

\* x >= n for a float x and an int n (no float is negative)
FGeqInt(x, n) == n <= 0 \/ FLeq(FFromInt(n), x)

FOne == FFromInt(1)
FHundred == FFromInt(100)

---------------------------------------------------------------------------
(* Program constants *)

MAX_LINKS_PER_SILO == 2
\* DIVERSITY_PENALTY = 0.15
DIVERSITY_PENALTY == FDivInt(15, 100)
\* the 0.5 of max(0.5, penalty_multiplier)
PENALTY_FLOOR == FDivInt(5, 10)
\* the outbound boost 1.1 and the inbound boost 1.15
OUTBOUND_BOOST == FDivInt(11, 10)
INBOUND_BOOST == FDivInt(115, 100)
\* word_count above which an outbound target is boosted
PILLAR_WORD_COUNT == 1500
\* max_per_silo of the inbound finder
INBOUND_MAX_PER_SILO == 1
\* the tie-scatter runs on lists longer than this
SCATTER_MIN_LEN == 5
\* width, in points, of a tie-scatter score group
SCORE_BAND == 5
\* body_text.split()[:1000]
BODY_WORD_LIMIT == 1000
\* min_value of the number input of max_results
MIN_RESULTS == 5

---------------------------------------------------------------------------
(* sorted(opportunities, key=lambda x: x['final_score'], reverse=True):    *)
(* a stable sort, equal scores keep their order.                           *)

\* the insertion that puts an entry ahead of the entries of equal score
RECURSIVE InsertDescTiesFirst(_, _)
InsertDescTiesFirst(sorted, opp) ==
    IF sorted = <<>> THEN <<opp>>
    ELSE IF FLeq(Head(sorted).final_score, opp.final_score)
         THEN <<opp>> \o sorted
         ELSE <<Head(sorted)>> \o InsertDescTiesFirst(Tail(sorted), opp)

\* sorted(..., reverse=True) is stable: an entry goes after the entries whose
\* score is greater or equal
RECURSIVE InsertDesc(_, _)
InsertDesc(sorted, opp) ==
    IF sorted = <<>> THEN <<opp>>
    ELSE IF FLess(Head(sorted).final_score, opp.final_score)
         THEN <<opp>> \o sorted
         ELSE <<Head(sorted)>> \o InsertDesc(Tail(sorted), opp)

RECURSIVE SortedByScoreDesc(_)
SortedByScoreDesc(opps) ==
    IF opps = <<>> THEN <<>>
    ELSE InsertDesc(SortedByScoreDesc(SubSeq(opps, 1, Len(opps) - 1)),
                    opps[Len(opps)])

IsSortedDesc(opps) ==
    \A i \in 1..(Len(opps) - 1) : FLeq(opps[i + 1].final_score, opps[i].final_score)

---------------------------------------------------------------------------
(* apply_diversity_penalties *)

\* opp.get('target_silo', opp.get('source_silo', 'root'))
SiloOfOpp(opp) ==
    IF "target_silo" \in DOMAIN opp THEN opp.target_silo
    ELSE IF "source_silo" \in DOMAIN opp THEN opp.source_silo
    ELSE "root"

\* silo_counts[silo] after the i-th entry has been counted
SiloCount(opps, i) ==
    Cardinality({j \in 1..i : SiloOfOpp(opps[j]) = SiloOfOpp(opps[i])})

\* the multiplier floored at 0 instead of 0.5
PenaltyMultiplierNoFloor(count, maxPerSilo) ==
    LET Multiplier(penalty) ==
            IF FLess(FOne, penalty) THEN FZero ELSE FSub(FOne, penalty)
    IN  Multiplier(FMul(DIVERSITY_PENALTY, FFromInt(count - maxPerSilo)))

\* max(0.5, 1 - (DIVERSITY_PENALTY * (count - max_per_silo))), for
\* count > max_per_silo; past a penalty of 1 the difference is negative
PenaltyMultiplier(count, maxPerSilo) ==
    LET Floored(penalty_multiplier) ==
            IF FLess(PENALTY_FLOOR, penalty_multiplier) THEN penalty_multiplier
            ELSE PENALTY_FLOOR
        Multiplier(penalty) ==
            IF FLess(FOne, penalty) THEN PENALTY_FLOOR
            ELSE Floored(FSub(FOne, penalty))
    IN  Multiplier(FMul(DIVERSITY_PENALTY, FFromInt(count - maxPerSilo)))

\* the iteration that flags the entries from the maxPerSilo-th of a silo on
PenalizedOppFlaggedEarly(opps, i, maxPerSilo) ==
    LET count == SiloCount(opps, i)
        flagged == [x \in DOMAIN opps[i] \cup {"diversity_penalty"} |->
                      IF x = "diversity_penalty" THEN count >= maxPerSilo
                      ELSE opps[i][x]]
    IN  IF count > maxPerSilo
        THEN [flagged EXCEPT !.final_score =
                 FMul(@, PenaltyMultiplier(count, maxPerSilo))]
        ELSE flagged

\* one iteration of the loop: the entry at position i after the pass
PenalizedOpp(opps, i, maxPerSilo) ==
    LET count == SiloCount(opps, i)
        flagged == [x \in DOMAIN opps[i] \cup {"diversity_penalty"} |->
                      IF x = "diversity_penalty" THEN count > maxPerSilo
                      ELSE opps[i][x]]
    IN  IF count > maxPerSilo
        THEN [flagged EXCEPT !.final_score =
                 FMul(@, PenaltyMultiplier(count, maxPerSilo))]
        ELSE flagged

apply_diversity_penalties(opps, maxPerSilo) ==
    [i \in 1..Len(opps) |-> PenalizedOpp(opps, i, maxPerSilo)]

---------------------------------------------------------------------------
(* URLs.  A URL is modelled as the sequence of the non-empty segments of   *)
(* its path (scheme, host and query play no part in the scoring); every    *)
(* segment is one word.                                                    *)

\* str.lower() on the segments the model uses
Lower(w) ==
    CASE w = "Blog" -> "blog"
      [] w = "SEO" -> "seo"
      [] OTHER -> w

extract_silo_from_url(url) ==
    IF Len(url) > 0 THEN Lower(url[1]) ELSE "root"

COMMON_WORDS ==
    { "index", "page", "article", "post", "blog", "category", "tag",
      "the", "a", "an", "and", "or", "in", "on", "at", "to", "for", "with",
      "is", "are", "was", "were", "be", "been", "being", "have", "has", "had",
      "do", "does", "did", "will", "would", "could", "should", "may", "might" }

\* set(re.findall(r'\b\w+\b', extract_path(url).lower())) - COMMON_WORDS
PathWords(url) ==
    { Lower(url[i]) : i \in 1..Len(url) } \ COMMON_WORDS

---------------------------------------------------------------------------
(* Content records (the dicts fetch_page_content returns).  tags is the    *)
(* tag set; title is the title as the sequence of its words; the body text *)
(* is word_count times the word BODY_WORD; description and headings are    *)
(* empty; publish_date is NoDate (None) or a datetime, aware when its ISO  *)
(* string carried a UTC offset and naive otherwise.                        *)

NoDate == [known |-> FALSE, t |-> 0, aware |-> FALSE]

DateTime(t, aware) == [known |-> TRUE, t |-> t, aware |-> aware]

\* the dict of the except branch: every feature empty, the silo kept
FailedFetch(url) ==
    [ tags |-> {}, title |-> <<>>, word_count |-> 0, publish_date |-> NoDate,
      silo |-> extract_silo_from_url(url) ]

\* the dict of the try branch, as the finders and the scorer read it: the
\* word count is whatever the record holds
ContentRecord(url, page) ==
    [ tags |-> page.tags, title |-> page.title, word_count |-> page.word_count,
      publish_date |-> page.publish_date, silo |-> extract_silo_from_url(url) ]

\* a successful fetch of a page with these features: the body text is cut to
\* its first 1000 words and word_count counts the words left
FetchedPage(url, page) ==
    ContentRecord(url, [page EXCEPT !.word_count = Min(@, BODY_WORD_LIMIT)])

\* cache.get(url, {}) with the defaults of the later .get(field, default)
CacheGet(cache, url) ==
    IF url \in DOMAIN cache THEN cache[url]
    ELSE [ tags |-> {}, title |-> <<>>, word_count |-> 0,
           publish_date |-> NoDate, silo |-> "root" ]

\* date1 > date2 on two datetimes raises TypeError when exactly one is aware
CompareRaises(date1, date2) == date1.aware # date2.aware

---------------------------------------------------------------------------
(* ContentAnalyzer.  A text is given by its words in order, a run of equal *)
(* words written as the word and the number of times it is repeated; empty *)
(* tells the empty string.  The fitted TF-IDF matrix is modelled by its    *)
(* rows, one per fitted text: the set of terms of the text that the        *)
(* vectorizer kept.  sklearn's weights are abstracted to binary term       *)
(* vectors.  max_features=500 cuts nothing: no corpus of the model has     *)
(* that many terms.                                                        *)

\* TfidfVectorizer(min_df=2)
MIN_DF == 2
\* TfidfVectorizer(max_df=0.8), in tenths
MAX_DF == 8

\* stop_words='english': the words of sklearn's list that the texts use
ENGLISH_STOP_WORDS == {"the", "and", "with"}

\* the word every body text of the model repeats
BODY_WORD == "the"

\* the text made of these words, each once
TextOf(words) ==
    [empty |-> words = <<>>, runs |-> [i \in 1..Len(words) |-> [word |-> words[i], times |-> 1]]]

\* the tokens of a text that the stop word list leaves
Tokens(text) ==
    LET Kept(run) == run.word \notin ENGLISH_STOP_WORDS IN SelectSeq(text.runs, Kept)

\* ngram_range=(1, 2): the terms of a text are its tokens and the pairs of
\* neighbouring tokens
NGrams(tokens) ==
    {<<tokens[i].word>> : i \in 1..Len(tokens)}
        \cup {<<tokens[i].word, tokens[i].word>> : i \in {j \in 1..Len(tokens) : tokens[j].times >= 2}}
        \cup {<<tokens[i].word, tokens[i + 1].word>> : i \in 1..(Len(tokens) - 1)}

\* the state after __init__
NewAnalyzer ==
    [ vectorizer |-> FALSE, tfidf_matrix |-> [present |-> FALSE, rows |-> <<>>],
      urls |-> <<>> ]

\* document frequency of a term over the fitted texts
DocFreq(texts, term) == Cardinality({i \in 1..Len(texts) : term \in NGrams(Tokens(texts[i]))})

\* the vocabulary the vectorizer keeps: min_df <= df <= max_df * n_docs
Vocabulary(texts) ==
    { term \in UNION {NGrams(Tokens(texts[i])) : i \in 1..Len(texts)} :
        /\ DocFreq(texts, term) >= MIN_DF
        /\ 10 * DocFreq(texts, term) <= MAX_DF * Len(texts) }

\* fit_transform raises ValueError: max_df * n_docs < min_df, or no term is kept
FitTransformRaises(texts) ==
    \/ MAX_DF * Len(texts) < 10 * MIN_DF
    \/ Vocabulary(texts) = {}

\* not texts or all(not t for t in texts)
FitSkipped(texts) ==
    \A i \in 1..Len(texts) : texts[i].empty

\* fit_content(content_dict), the dict given as its key list and its value list
fit_content(self, keys, texts) ==
    IF FitSkipped(texts)
    THEN [self EXCEPT !.urls = keys]
    ELSE IF FitTransformRaises(texts)
    THEN [ vectorizer |-> TRUE, urls |-> keys,
           tfidf_matrix |-> [present |-> FALSE, rows |-> <<>>] ]
    ELSE [ vectorizer |-> TRUE, urls |-> keys,
           tfidf_matrix |->
             [ present |-> TRUE,
               rows |-> [i \in 1..Len(texts) |->
                           NGrams(Tokens(texts[i])) \cap Vocabulary(texts)] ] ]

\* self.urls.index(url)
IndexOf(seq, x) == CHOOSE i \in 1..Len(seq) : seq[i] = x /\ \A j \in 1..(i - 1) : seq[j] # x

InSeq(seq, x) == \E i \in 1..Len(seq) : seq[i] = x

\* floor of the square root of n, known to lie in lo..hi
RECURSIVE ISqrtIn(_, _, _)
ISqrtIn(n, lo, hi) ==
    IF lo >= hi THEN lo
    ELSE LET mid == (lo + hi + 1) \div 2 IN
         IF mid * mid <= n THEN ISqrtIn(n, mid, hi) ELSE ISqrtIn(n, lo, mid - 1)

ISqrt(n) == ISqrtIn(n, 0, 10000)

\* cosine_similarity of two rows, times 100, in hundredths of a point.  A row
\* is the set of kept terms of a text in which every term occurs once; the
\* texts of this model share all of their terms or none, and for equal or
\* disjoint rows the value (100 or 0) is that of the TF-IDF vectors.
Cosine(row1, row2) ==
    IF row1 = {} \/ row2 = {} THEN 0
    ELSE LET c == Cardinality(row1 \cap row2) IN
         ISqrt((10000 * 10000 * c * c) \div (Cardinality(row1) * Cardinality(row2)))

\* a similarity that is a neutral 50 instead of 0 without a fitted matrix
GetSimilarityNeutralUnfit(self, url1, url2) ==
    IF ~self.tfidf_matrix.present
    THEN [raised |-> FALSE, value |-> 5000]
    ELSE IF ~InSeq(self.urls, url1) \/ ~InSeq(self.urls, url2)
    THEN [raised |-> FALSE, value |-> 0]
    ELSE LET idx1 == IndexOf(self.urls, url1)
             idx2 == IndexOf(self.urls, url2)
             rows == self.tfidf_matrix.rows
         IN  IF idx1 > Len(rows) \/ idx2 > Len(rows)
             THEN [raised |-> TRUE, value |-> 0]
             ELSE [raised |-> FALSE, value |-> Cosine(rows[idx1], rows[idx2])]

\* get_similarity(url1, url2): [raised, value]; a row index past the matrix
\* makes cosine_similarity raise ValueError
get_similarity(self, url1, url2) ==
    IF ~self.tfidf_matrix.present \/ ~InSeq(self.urls, url1) \/ ~InSeq(self.urls, url2)
    THEN [raised |-> FALSE, value |-> 0]
    ELSE LET idx1 == IndexOf(self.urls, url1)
             idx2 == IndexOf(self.urls, url2)
             rows == self.tfidf_matrix.rows
         IN  IF idx1 > Len(rows) \/ idx2 > Len(rows)
             THEN [raised |-> TRUE, value |-> 0]
             ELSE [raised |-> FALSE, value |-> Cosine(rows[idx1], rows[idx2])]

---------------------------------------------------------------------------
(* calculate_enhanced_relevance *)

OutboundWeights ==
    [tag |-> FDivInt(25, 100), content |-> FDivInt(35, 100),
     path |-> FDivInt(10, 100), depth |-> FDivInt(10, 100),
     temporal |-> FDivInt(10, 100), diversity |-> FDivInt(10, 100)]

InboundWeights ==
    [tag |-> FDivInt(20, 100), content |-> FDivInt(30, 100),
     path |-> FDivInt(10, 100), depth |-> FDivInt(10, 100),
     temporal |-> FDivInt(15, 100), diversity |-> FDivInt(15, 100)]

\* the outbound weights used for both directions
WeightsOutboundOnly(link_direction) == OutboundWeights

\* the weights dict of the direction
Weights(link_direction) ==
    IF link_direction = "outbound" THEN OutboundWeights ELSE InboundWeights

\* the tag score without its cap at 100
TagScoreUncapped(tags1, tags2) ==
    LET tag_intersection == Cardinality(tags1 \cap tags2) IN
    IF tag_intersection > 0 THEN 30 + tag_intersection * 25 ELSE 0

\* 1. tag-based similarity, in points
TagScore(tags1, tags2) ==
    LET tag_intersection == Cardinality(tags1 \cap tags2) IN
    IF tag_intersection > 0 THEN Min(100, 30 + tag_intersection * 25) ELSE 0

\* 3. URL path similarity: (intersection / union) * 100
PathScore(url1, url2) ==
    LET words1 == PathWords(url1)
        words2 == PathWords(url2)
    IN  IF words1 # {} /\ words2 # {}
        THEN FMul(FDivInt(Cardinality(words1 \cap words2),
                          Cardinality(words1 \cup words2)), FHundred)
        ELSE FZero

\* 4. content depth alignment: (1 - abs(wc1 - wc2) / max(wc1, wc2)) * 100
DepthScore(wc1, wc2) ==
    IF wc1 > 0 /\ wc2 > 0
    THEN LET depth_diff == FDivInt(IF wc1 >= wc2 THEN wc1 - wc2 ELSE wc2 - wc1,
                                   Max(wc1, wc2))
         IN  FMul(FSub(FOne, depth_diff), FHundred)
    ELSE FFromInt(50)

\* the temporal score that treats both directions as inbound
TemporalScoreSymmetric(date1, date2, link_direction) ==
    IF date1.known /\ date2.known
    THEN (IF date1.t > date2.t THEN 70 ELSE 30)
    ELSE 50

\* 5. temporal relevance, in points; the dates are comparable
TemporalScore(date1, date2, link_direction) ==
    IF date1.known /\ date2.known
    THEN IF link_direction = "inbound"
         THEN (IF date1.t > date2.t THEN 70 ELSE 30)
         ELSE (IF date2.t < date1.t THEN 70 ELSE 50)
    ELSE 50

\* 6. silo diversity bonus, in points
DiversityScore(silo1, silo2) == IF silo1 # silo2 THEN 70 ELSE 30

\* the dict calculate_enhanced_relevance returns; raised is TRUE when the call
\* ends in an exception instead.  final_score is the float round(..., 2)
\* returns; the six sub-scores are given in hundredths of a point.
calculate_enhanced_relevance(url1, url2, cache, analyzer, link_direction) ==
    LET content1 == CacheGet(cache, url1)
        content2 == CacheGet(cache, url2)
        date1 == content1.publish_date
        date2 == content2.publish_date
        \* the dict returned
        Result(tag_score, content_score, path_score, depth_score, temporal_score, diversity_score, final_score) ==
            [ raised |-> FALSE,
              final_score |-> FHundredths(FRound2(final_score)),
              tag_score |-> 100 * tag_score,
              content_score |-> FRound2(content_score),
              path_score |-> FRound2(path_score),
              depth_score |-> FRound2(depth_score),
              temporal_score |-> 100 * temporal_score,
              diversity_score |-> 100 * diversity_score,
              common_tags |-> content1.tags \cap content2.tags,
              silo1 |-> content1.silo,
              silo2 |-> content2.silo ]
        \* the weighted sum of the six scores, added in the order of the source
        Weighted(weights, tag_score, content_score, path_score, depth_score, temporal_score, diversity_score) ==
            Result(tag_score, content_score, path_score, depth_score,
                   temporal_score, diversity_score,
                   FAdd(FAdd(FAdd(FAdd(FAdd(FMul(FFromInt(tag_score), weights.tag),
                                            FMul(content_score, weights.content)),
                                       FMul(path_score, weights.path)),
                                  FMul(depth_score, weights.depth)),
                             FMul(FFromInt(temporal_score), weights.temporal)),
                        FMul(FFromInt(diversity_score), weights.diversity)))
        \* the scores once get_similarity has returned
        Scored(similarity) ==
            IF similarity.raised \/ (date1.known /\ date2.known /\ CompareRaises(date1, date2))
            THEN [raised |-> TRUE]
            ELSE Weighted(Weights(link_direction),
                          TagScore(content1.tags, content2.tags),
                          FHundredths(similarity.value),
                          PathScore(url1, url2),
                          DepthScore(content1.word_count, content2.word_count),
                          TemporalScore(date1, date2, link_direction),
                          DiversityScore(content1.silo, content2.silo))
    IN  Scored(get_similarity(analyzer, url1, url2))

---------------------------------------------------------------------------
(* The finders.  Each returns a record: status is "returned" or "raised"   *)
(* (the call ended in an exception); admitted is the list built by the     *)
(* loop, ranked the penalized and re-sorted list, opportunities the list   *)
(* returned, rng the process-wide generator state on exit.        *)

\* seq[:n]
PySlice(seq, n) ==
    IF n >= 0 THEN SubSeq(seq, 1, Min(n, Len(seq)))
    ELSE SubSeq(seq, 1, Max(0, Len(seq) + n))

Raised(rng) ==
    [ status |-> "raised", admitted |-> <<>>, ranked |-> <<>>,
      opportunities |-> <<>>, rng |-> rng ]

\* the boost granted from 1500 words on
OutboundBoostedAt1500(score, target_content) ==
    IF target_content.word_count >= PILLAR_WORD_COUNT
    THEN FMul(score, OUTBOUND_BOOST) ELSE score

\* the outbound boost of an admitted candidate
OutboundBoosted(score, target_content) ==
    IF target_content.word_count > PILLAR_WORD_COUNT
    THEN FMul(score, OUTBOUND_BOOST) ELSE score

\* the inbound boost of an admitted candidate
InboundBoosted(score, new_content, source_content) ==
    IF /\ new_content.publish_date.known
       /\ source_content.publish_date.known
       /\ source_content.publish_date.t > new_content.publish_date.t
    THEN FMul(score, INBOUND_BOOST) ELSE score

\* the dict appended for a candidate; silo_key is target_silo or source_silo
Opportunity(url, score, relevance, content, silo_key, silo) ==
    [ x \in { "url", "final_score", "tag_score", "content_score", "path_score",
              "depth_score", "temporal_score", "diversity_score", "common_tags",
              "word_count", "publish_date", silo_key } |->
        CASE x = "url" -> url
          [] x = "final_score" -> score
          [] x = "word_count" -> content.word_count
          [] x = "publish_date" -> content.publish_date
          [] x = silo_key -> silo
          [] OTHER -> relevance[x] ]

\* no threshold at all
AdmitsEveryCandidate(relevance, boosted, min_relevance) == TRUE

\* the threshold compared with the boosted score instead
AdmitsAfterBoost(relevance, boosted, min_relevance) ==
    FGeqInt(boosted, min_relevance)

\* relevance['final_score'] >= min_relevance, evaluated before the boost;
\* boosted is the score the candidate has once admitted
Admits(relevance, boosted, min_relevance) ==
    FGeqInt(relevance.final_score, min_relevance)

\* the loop of find_enhanced_outbound_opportunities over urls, appending to acc
RECURSIVE OutboundLoop(_, _, _, _, _, _)
OutboundLoop(urls, acc, new_url, cache, analyzer, min_relevance) ==
    IF urls = <<>> THEN [raised |-> FALSE, opportunities |-> acc]
    ELSE LET target_url == Head(urls)
             \* the candidate with its relevance and the score it has if admitted
             Candidate(relevance, target_content, boosted) ==
                 IF Admits(relevance, boosted, min_relevance)
                 THEN OutboundLoop(Tail(urls),
                          Append(acc, Opportunity(target_url, boosted, relevance,
                              target_content, "target_silo", relevance.silo2)),
                          new_url, cache, analyzer, min_relevance)
                 ELSE OutboundLoop(Tail(urls), acc, new_url, cache,
                                   analyzer, min_relevance)
             Scored(relevance, target_content) ==
                 IF relevance.raised
                 THEN [raised |-> TRUE, opportunities |-> <<>>]
                 ELSE Candidate(relevance, target_content,
                          OutboundBoosted(relevance.final_score, target_content))
         IN  IF target_url = new_url
             THEN OutboundLoop(Tail(urls), acc, new_url, cache,
                               analyzer, min_relevance)
             ELSE Scored(calculate_enhanced_relevance(
                             new_url, target_url, cache, analyzer, "outbound"),
                         CacheGet(cache, target_url))

\* the outbound finder cutting the penalized list without sorting it again
OutboundWithoutResort(new_url, urls, cache, analyzer, min_relevance, max_results, rng) ==
    LET Returned(admitted, ranked) ==
            [ status |-> "returned", admitted |-> admitted, ranked |-> ranked,
              opportunities |-> PySlice(ranked, max_results), rng |-> rng ]
        Ranked(admitted, sorted) ==
            Returned(admitted,
                     apply_diversity_penalties(PySlice(sorted, max_results * 2),
                                               MAX_LINKS_PER_SILO))
        Looped(loop) ==
            IF loop.raised THEN Raised(rng)
            ELSE Ranked(loop.opportunities, SortedByScoreDesc(loop.opportunities))
    IN  Looped(OutboundLoop(urls, <<>>, new_url, cache, analyzer, min_relevance))

find_enhanced_outbound_opportunities(new_url, urls, cache, analyzer, min_relevance, max_results, rng) ==
    LET \* opportunities[:max_results] of the list sorted again
        Returned(admitted, ranked) ==
            [ status |-> "returned", admitted |-> admitted, ranked |-> ranked,
              opportunities |-> PySlice(ranked, max_results), rng |-> rng ]
        \* the penalties on the first max_results * 2 of the sorted list
        Ranked(admitted, sorted) ==
            Returned(admitted,
                     SortedByScoreDesc(
                         apply_diversity_penalties(PySlice(sorted, max_results * 2),
                                                   MAX_LINKS_PER_SILO)))
        Looped(loop) ==
            IF loop.raised THEN Raised(rng)
            ELSE Ranked(loop.opportunities, SortedByScoreDesc(loop.opportunities))
    IN  Looped(OutboundLoop(urls, <<>>, new_url, cache, analyzer, min_relevance))

\* the loop of find_enhanced_inbound_opportunities over urls, appending to acc
RECURSIVE InboundLoop(_, _, _, _, _, _)
InboundLoop(urls, acc, new_url, cache, analyzer, min_relevance) ==
    IF urls = <<>> THEN [raised |-> FALSE, opportunities |-> acc]
    ELSE LET source_url == Head(urls)
             \* the candidate with its relevance and the score it has if admitted
             Candidate(relevance, source_content, boosted) ==
                 IF Admits(relevance, boosted, min_relevance)
                 THEN InboundLoop(Tail(urls),
                          Append(acc, Opportunity(source_url, boosted, relevance,
                              source_content, "source_silo", relevance.silo1)),
                          new_url, cache, analyzer, min_relevance)
                 ELSE InboundLoop(Tail(urls), acc, new_url, cache,
                                  analyzer, min_relevance)
             Scored(relevance, source_content, new_content) ==
                 IF relevance.raised
                 THEN [raised |-> TRUE, opportunities |-> <<>>]
                 ELSE Candidate(relevance, source_content,
                          InboundBoosted(relevance.final_score, new_content,
                                         source_content))
         IN  IF source_url = new_url
             THEN InboundLoop(Tail(urls), acc, new_url, cache,
                              analyzer, min_relevance)
             ELSE Scored(calculate_enhanced_relevance(
                             source_url, new_url, cache, analyzer, "inbound"),
                         CacheGet(cache, source_url), CacheGet(cache, new_url))

\* the grouping loop comparing each entry with the entry before it
RECURSIVE GroupLoopConsecutive(_, _, _, _)
GroupLoopConsecutive(opps, score_groups, current_group, last_score) ==
    IF opps = <<>>
    THEN (IF current_group # <<>> THEN Append(score_groups, current_group)
          ELSE score_groups)
    ELSE LET opp == Head(opps)
             gap == FAbsDiff(opp.final_score, last_score)
         IN  IF FLess(gap, FFromInt(SCORE_BAND))
             THEN GroupLoopConsecutive(Tail(opps), score_groups,
                            Append(current_group, opp), opp.final_score)
             ELSE GroupLoopConsecutive(Tail(opps),
                            IF current_group # <<>>
                            THEN Append(score_groups, current_group)
                            ELSE score_groups,
                            <<opp>>, opp.final_score)

\* the grouping loop of the tie-scatter
RECURSIVE GroupLoop(_, _, _, _)
GroupLoop(opps, score_groups, current_group, last_score) ==
    IF opps = <<>>
    THEN (IF current_group # <<>> THEN Append(score_groups, current_group)
          ELSE score_groups)
    ELSE LET opp == Head(opps)
             gap == FAbsDiff(opp.final_score, last_score)
         IN  IF FLess(gap, FFromInt(SCORE_BAND))
             THEN GroupLoop(Tail(opps), score_groups,
                            Append(current_group, opp), last_score)
             ELSE GroupLoop(Tail(opps),
                            IF current_group # <<>>
                            THEN Append(score_groups, current_group)
                            ELSE score_groups,
                            <<opp>>, opp.final_score)

\* the grouping that never starts a new group
ScoreGroupsUnsplit(opps) == <<opps>>

\* score_groups after the loop; last_score starts at the first score
ScoreGroups(opps) == GroupLoop(opps, <<>>, <<>>, opps[1].final_score)

\* The generator of the random module.  random.seed(hash(new_url)) makes it
\* the generator of that hash, and str hashes are salted with a secret the
\* interpreter draws at process start: which values the randbelow calls of
\* the seeded generator return is fixed for the process and the URL, and any
\* values in range are those of some salt.  A stream is the sequence of the
\* values the calls return; the state of a generator is how it was seeded and
\* how many values it has returned.

\* the generator state of a process that never called random.seed
OsSeeded == [seeded |-> FALSE, url |-> <<>>, drawn |-> 0]

\* random.seed(hash(url))
Seeded(url) == [seeded |-> TRUE, url |-> url, drawn |-> 0]

\* randbelow(n): the next value of the stream
RandBelow(state, n, stream) ==
    [value |-> stream[state.drawn + 1], state |-> [state EXCEPT !.drawn = @ + 1]]

\* random.shuffle(x): for i in reversed(range(1, len(x))): swap x[i], x[randbelow(i+1)]
RECURSIVE ShuffleFrom(_, _, _, _)
ShuffleFrom(x, i, state, stream) ==
    IF i < 2 THEN [list |-> x, state |-> state]
    ELSE LET Swapped(draw, j) ==
                 ShuffleFrom([x EXCEPT ![i] = x[j], ![j] = x[i]], i - 1,
                             draw.state, stream)
             Drawn(draw) == Swapped(draw, draw.value + 1)
         IN  Drawn(RandBelow(state, i, stream))

\* the loop over score_groups, extending shuffled_opportunities
RECURSIVE ShuffleGroups(_, _, _, _)
ShuffleGroups(score_groups, shuffled_opportunities, state, stream) ==
    IF score_groups = <<>> THEN [list |-> shuffled_opportunities, state |-> state]
    ELSE LET group == Head(score_groups)
             Extended(sh) ==
                 ShuffleGroups(Tail(score_groups), shuffled_opportunities \o sh.list,
                               sh.state, stream)
         IN  IF Len(group) > 1
             THEN Extended(ShuffleFrom(group, Len(group), state, stream))
             ELSE ShuffleGroups(Tail(score_groups), shuffled_opportunities \o group,
                                state, stream)

\* the arguments of the randbelow calls of the loop over score_groups: the
\* shuffle of a group of n entries calls randbelow(n), ..., randbelow(2)
RECURSIVE GroupsRadices(_)
GroupsRadices(score_groups) ==
    IF score_groups = <<>> THEN <<>>
    ELSE [k \in 1..(Len(Head(score_groups)) - 1) |-> Len(Head(score_groups)) + 1 - k]
             \o GroupsRadices(Tail(score_groups))

\* the streams a generator can return to randbelow calls with these arguments
RECURSIVE DrawStreams(_)
DrawStreams(radices) ==
    IF radices = <<>> THEN {<<>>}
    ELSE {<<value>> \o rest : value \in 0..(Head(radices) - 1),
                              rest \in DrawStreams(Tail(radices))}

\* what the finder has built when it reaches the tie-scatter: the admitted
\* list, and the list sorted, cut to max_results * 2, penalized and sorted
InboundWithoutFirstSort(new_url, urls, cache, analyzer, min_relevance, max_results) ==
    LET Ranked(admitted, sorted) ==
            [ raised |-> FALSE, admitted |-> admitted,
              ranked |-> SortedByScoreDesc(
                             apply_diversity_penalties(PySlice(sorted, max_results * 2),
                                                       INBOUND_MAX_PER_SILO)) ]
        Looped(loop) ==
            IF loop.raised THEN [raised |-> TRUE, admitted |-> <<>>, ranked |-> <<>>]
            ELSE Ranked(loop.opportunities, loop.opportunities)
    IN  Looped(InboundLoop(urls, <<>>, new_url, cache, analyzer, min_relevance))

InboundRanked(new_url, urls, cache, analyzer, min_relevance, max_results) ==
    LET Ranked(admitted, sorted) ==
            [ raised |-> FALSE, admitted |-> admitted,
              ranked |-> SortedByScoreDesc(
                             apply_diversity_penalties(PySlice(sorted, max_results * 2),
                                                       INBOUND_MAX_PER_SILO)) ]
        Looped(loop) ==
            IF loop.raised THEN [raised |-> TRUE, admitted |-> <<>>, ranked |-> <<>>]
            ELSE Ranked(loop.opportunities, SortedByScoreDesc(loop.opportunities))
    IN  Looped(InboundLoop(urls, <<>>, new_url, cache, analyzer, min_relevance))

\* the arguments of the randbelow calls of the tie-scatter of a built list,
\* which runs if len(opportunities) > 5
ScatterRadices(built) ==
    IF Len(built.ranked) > SCATTER_MIN_LEN
    THEN GroupsRadices(ScoreGroups(built.ranked)) ELSE <<>>

\* the tie-scatter and the cut to max_results; the scatter seeds the
\* process-wide generator with hash(new_url) and shuffles the groups with
\* it, stream being what that generator returns
InboundScattered(built, new_url, max_results, rng, stream) ==
    LET Scattered(scattered) ==
            [ status |-> "returned", admitted |-> built.admitted,
              ranked |-> built.ranked,
              opportunities |-> PySlice(scattered.list, max_results),
              rng |-> scattered.state ]
    IN  IF built.raised THEN Raised(rng)
        ELSE IF Len(built.ranked) > SCATTER_MIN_LEN
        THEN Scattered(ShuffleGroups(ScoreGroups(built.ranked), <<>>,
                                     Seeded(new_url), stream))
        ELSE [ status |-> "returned", admitted |-> built.admitted,
               ranked |-> built.ranked,
               opportunities |-> PySlice(built.ranked, max_results), rng |-> rng ]

find_enhanced_inbound_opportunities(new_url, urls, cache, analyzer, min_relevance, max_results, rng, stream) ==
    InboundScattered(InboundRanked(new_url, urls, cache, analyzer,
                                   min_relevance, max_results),
                     new_url, max_results, rng, stream)

\* What the str-hash salt of a process has fixed so far: for each URL that
\* was hashed to seed the generator, the arguments of the randbelow calls
\* and the values returned; nothing (<<>>) when the process starts.

\* the streams the generator of hash(url) can return in this process: any,
\* but the same values as before while the calls are the same as before
HashStreams(known, url, radices) ==
    { stream \in DrawStreams(radices) :
        url \in DOMAIN known =>
            \A k \in 1..Min(Len(radices), Len(known[url].radices)) :
                (\A j \in 1..k : radices[j] = known[url].radices[j])
                    => stream[k] = known[url].stream[k] }

\* the salt after hash(url) seeded a generator that returned stream
Hashed(known, url, radices, stream) ==
    [u \in DOMAIN known \cup {url} |->
        IF u = url THEN [radices |-> radices, stream |-> stream] ELSE known[u]]

---------------------------------------------------------------------------
(* The penalizer on its own: a caller builds a score-sorted list, runs     *)
(* apply_diversity_penalties on it and re-sorts it, possibly again.        *)

\* scores of the opportunities of such a list
PenScores == {100, 60}

\* the silo keys an opportunity dict may carry
PenSiloKeys ==
    { [target_silo |-> "blog"], [source_silo |-> "blog"], <<>> }

PenOpps ==
    { [x \in DOMAIN k \cup {"final_score"} |->
          IF x = "final_score" THEN FFromInt(s) ELSE k[x]]
      : k \in PenSiloKeys, s \in PenScores }

---------------------------------------------------------------------------
(* One analysis run: the content records of the corpus are collected in    *)
(* the order of all_urls, the semantic model is built when TF-IDF is       *)
(* enabled, and the finders are called with the threshold and the result   *)
(* count set in the sidebar.                                               *)

\* the URLs the site can list in its sitemap
SiteUrls ==
    << <<"blog", "seo">>, <<"guides", "seo">>, <<"blog", "links">>,
       <<"blog", "tips">>, <<"blog", "audit">>, <<"news", "seo">>,
       <<>>, <<"Blog", "SEO">>, <<"guides", "links">> >>

\* the sitemap of this analysis: it lists MaxUrls of them
Sitemap == SubSeq(SiteUrls, 1, Min(MaxUrls, Len(SiteUrls)))

\* all_urls = fetch_sitemap(sitemap_url): every URL of the sitemap.  The
\* new article is one of them (NewUrls), so main does not append it.
all_urls == Sitemap

\* page features a content record may carry
PagePillar ==
    [ tags |-> {"seo", "links", "content"}, title |-> <<"seo", "links">>,
      word_count |-> 2000, publish_date |-> DateTime(2, FALSE) ]
PagePillarAware ==
    [ tags |-> {"seo", "links", "content"}, title |-> <<"seo", "links">>,
      word_count |-> 800, publish_date |-> DateTime(2, TRUE) ]
PageOld ==
    [ tags |-> {"seo", "links"}, title |-> <<"seo", "links">>,
      word_count |-> 0, publish_date |-> DateTime(1, FALSE) ]
PageUndated ==
    [ tags |-> {}, title |-> <<"seo", "links">>,
      word_count |-> 1500, publish_date |-> NoDate ]
PageFresh ==
    [ tags |-> {"seo"}, title |-> <<"seo", "links">>,
      word_count |-> 3000, publish_date |-> DateTime(3, FALSE) ]
PageTwin ==
    [ tags |-> {"links"}, title |-> <<"audit", "tips">>,
      word_count |-> 1000, publish_date |-> DateTime(2, FALSE) ]

\* the pages the i-th URL of the sitemap may carry
PagesFor(i) ==
    CASE i = 1 -> {PagePillar, PagePillarAware}
      [] i = 2 -> {PageUndated}
      [] i = 3 -> {PageOld, PageFresh}
      [] i = 4 -> {PageOld, PageTwin}
      [] i = 5 -> {PageOld}
      [] i = 6 -> {PageTwin}
      [] OTHER -> {PageOld}

\* cache with cache[url] = content
Cached(cache, url, content) ==
    [u \in DOMAIN cache \cup {url} |-> IF u = url THEN content ELSE cache[u]]

\* the new article URLs of the model
NewUrls == {Sitemap[1], Sitemap[6]}

\* values of the sidebar slider of min_relevance_score (0 to 100 in steps
\* of 5)
MinRelevances == {0, 30, 65}

\* min_relevance and max_results of a finder call by any caller: values the
\* sidebar can give and values it cannot, among them values outside the
\* contract of the finders
FinderArgs ==
    (MinRelevances \X {2, 4})
        \cup {<<0 - 5, 4>>, <<105, 4>>, <<30, 0>>, <<30, 0 - 1>>}

NoArgs == [new_url |-> <<>>, min_relevance |-> 0, max_results |-> 0]

NoOutcome ==
    [ status |-> "none", admitted |-> <<>>, ranked |-> <<>>,
      opportunities |-> <<>> ]

Outcome(found) ==
    [ status |-> found.status, admitted |-> found.admitted,
      ranked |-> found.ranked, opportunities |-> found.opportunities ]

NeverFit == [keys |-> <<>>, ended |-> "never", built_from |-> <<>>]

NoQuery == [asked |-> FALSE, url1 |-> <<>>, url2 |-> <<>>, raised |-> FALSE, value |-> 0]

\* how a fit_content call on these texts ends
FitEnded(texts) ==
    IF FitSkipped(texts) THEN "skipped"
    ELSE IF FitTransformRaises(texts) THEN "failed" ELSE "fitted"

\* the key list of the corpus the matrix held after this fit_content call was
\* built from: the call's keys when it fits, none when fit_transform raises
\* (the matrix is dropped), the earlier one when the call returns early
BuiltFrom(previous, keys, texts) ==
    IF FitEnded(texts) = "fitted" THEN keys
    ELSE IF FitEnded(texts) = "failed" THEN <<>>
    ELSE previous.built_from

\* the record of a fit_content call
FitCall(previous, keys, texts) ==
    [keys |-> keys, ended |-> FitEnded(texts),
     built_from |-> BuiltFrom(previous, keys, texts)]

\* nothing was hashed yet and random.seed was not called
RunInit ==
    /\ content_cache = <<>>
    /\ content_analyzer = NewAnalyzer
    /\ phase = "collect"
    /\ hash_secret = <<>>
    /\ random_state = OsSeeded
    /\ args = NoArgs
    /\ outbound = NoOutcome
    /\ inbound = NoOutcome
    /\ first_run = NoOutcome
    /\ last_fit = NeverFit
    /\ last_query = NoQuery

\* the state of the run variables while the penalizer is studied on its own
FindIdle ==
    /\ content_cache = <<>>
    /\ phase = "idle"
    /\ hash_secret = <<>>
    /\ random_state = OsSeeded
    /\ args = NoArgs
    /\ outbound = NoOutcome
    /\ inbound = NoOutcome
    /\ first_run = NoOutcome

RunIdle ==
    /\ FindIdle
    /\ content_analyzer = NewAnalyzer
    /\ last_fit = NeverFit
    /\ last_query = NoQuery

NotScored ==
    [ called |-> FALSE, url1 |-> <<>>, url2 |-> <<>>, link_direction |-> "",
      relevance |-> [raised |-> FALSE] ]

ScoreIdle == scored = NotScored

PenIdle ==
    /\ opportunities = <<>>
    /\ max_per_silo = MAX_LINKS_PER_SILO
    /\ passes = 0
    /\ before = <<>>
    /\ resorted = FALSE

\* content_cache[url] = content, for the next URL of all_urls: the request
\* of any URL may fail (at most MaxFailed of them do) and gives the record
\* of the except branch, or the record has the features of one of the URL's
\* pages
SupplyContentRecord ==
    /\ phase = "collect"
    /\ LET i == Cardinality(DOMAIN content_cache) + 1
           url == all_urls[i]
           failed == {u \in DOMAIN content_cache : content_cache[u] = FailedFetch(u)}
       IN  /\ \E content \in
                   (IF Cardinality(failed) < MaxFailed THEN {FailedFetch(url)} ELSE {})
                       \cup {FetchedPage(url, page) : page \in PagesFor(i)} :
                content_cache' = Cached(content_cache, url, content)
           /\ phase' = IF i = Len(all_urls) THEN "analyze" ELSE "collect"
    /\ UNCHANGED <<indexVars, hash_secret, random_state, args, outbound,
                   inbound, first_run, penVars, scored>>

\* combined_text of a record: title, description, headings and body text
\* joined by blanks; ' '.join of four strings is never ''
CombinedText(content) ==
    [ empty |-> FALSE,
      runs |-> TextOf(content.title).runs
                 \o (IF content.word_count > 0
                     THEN <<[word |-> BODY_WORD, times |-> content.word_count]>>
                     ELSE <<>>) ]

\* text_content, in the key order of content_cache
TextContent ==
    [i \in 1..Len(all_urls) |-> CombinedText(content_cache[all_urls[i]])]

\* if enable_tfidf: content_analyzer.fit_content(text_content)
BuildSemanticModel ==
    /\ phase = "analyze"
    /\ \E enable_tfidf \in BOOLEAN :
         /\ content_analyzer' =
             IF enable_tfidf
             THEN fit_content(content_analyzer, all_urls, TextContent)
             ELSE content_analyzer
         /\ last_fit' =
             IF enable_tfidf
             THEN FitCall(last_fit, all_urls, TextContent)
             ELSE last_fit
    /\ phase' = "find"
    /\ UNCHANGED <<content_cache, hash_secret, random_state, args, outbound,
                   inbound, first_run, last_query, penVars, scored>>

\* outbound = find_enhanced_outbound_opportunities(...), with the new article
\* URL and the values of the sidebar: min_relevance_score from the slider,
\* max_results from the number input (MIN_RESULTS and more).  An exception
\* of the call is not caught: it ends the run.
FindOutbound ==
    /\ phase = "find"
    /\ \E new_url \in NewUrls, min_relevance \in MinRelevances,
          max_results \in MIN_RESULTS..MaxResults :
         \E found \in {find_enhanced_outbound_opportunities(
                 new_url, all_urls, content_cache, content_analyzer,
                 min_relevance, max_results, random_state)} :
             /\ args' = [new_url |-> new_url, min_relevance |-> min_relevance,
                         max_results |-> max_results]
             /\ outbound' = Outcome(found)
             /\ random_state' = found.rng
             /\ phase' = IF found.status = "raised" THEN "ended" ELSE "outbound"
    /\ UNCHANGED <<content_cache, indexVars, hash_secret, inbound,
                   first_run, penVars, scored>>

\* inbound = find_enhanced_inbound_opportunities(...), same arguments, once
\* the outbound call has returned
FindInbound ==
    /\ phase = "outbound"
    /\ \E built \in {InboundRanked(
               args.new_url, all_urls, content_cache, content_analyzer,
               args.min_relevance, args.max_results)} :
         \E stream \in HashStreams(hash_secret, args.new_url, ScatterRadices(built)) :
           \E found \in {InboundScattered(built, args.new_url, args.max_results,
                                          random_state, stream)} :
             /\ inbound' = Outcome(found)
             /\ random_state' = found.rng
             /\ hash_secret' =
                 IF Len(built.ranked) > SCATTER_MIN_LEN
                 THEN Hashed(hash_secret, args.new_url, ScatterRadices(built), stream)
                 ELSE hash_secret
    /\ phase' = "inbound"
    /\ UNCHANGED <<content_cache, indexVars, args, outbound,
                   first_run, penVars, scored>>

\* the same analysis is run once more in a new process on the same corpus:
\* the interpreter draws a new str-hash salt and a new generator state
Restart ==
    /\ phase = "inbound"
    /\ first_run = NoOutcome
    /\ first_run' = inbound
    /\ inbound' = NoOutcome
    /\ hash_secret' = <<>>
    /\ random_state' = OsSeeded
    /\ phase' = "outbound"
    /\ UNCHANGED <<content_cache, indexVars, args, outbound, penVars, scored>>

Init == RunInit /\ PenIdle /\ ScoreIdle

Next ==
    \/ SupplyContentRecord
    \/ BuildSemanticModel
    \/ FindOutbound
    \/ FindInbound
    \/ Restart

Spec == Init /\ [][Next]_vars

---------------------------------------------------------------------------
(* The finders on their own: called as functions, by any caller, with any  *)
(* threshold and result count, on a cache that the caller filled and whose *)
(* records may hold any word count.                                        *)

\* the caches over the first n URLs of all_urls a caller may hand to the
\* finders, at most failed of their records those of a failed fetch
RECURSIVE CachesOver(_, _)
CachesOver(n, failed) ==
    IF n = 0 THEN {<<>>}
    ELSE {Cached(rest, all_urls[n], ContentRecord(all_urls[n], page)) :
              rest \in CachesOver(n - 1, failed), page \in PagesFor(n)}
         \cup {Cached(rest, all_urls[n], FailedFetch(all_urls[n])) :
                  rest \in UNION {CachesOver(n - 1, failed - 1) : x \in {f \in {failed} : f > 0}}}

CallerCaches == CachesOver(Len(all_urls), MaxFailed)

CallerInit ==
    /\ content_cache \in CallerCaches
    /\ \E enable_tfidf \in BOOLEAN :
         /\ content_analyzer =
             IF enable_tfidf
             THEN fit_content(NewAnalyzer, all_urls, TextContent)
             ELSE NewAnalyzer
         /\ last_fit =
             IF enable_tfidf
             THEN FitCall(NeverFit, all_urls, TextContent)
             ELSE NeverFit
    /\ phase = "find"
    /\ hash_secret = <<>>
    /\ random_state = OsSeeded
    /\ args = NoArgs
    /\ outbound = NoOutcome
    /\ inbound = NoOutcome
    /\ first_run = NoOutcome
    /\ last_query = NoQuery
    /\ PenIdle
    /\ ScoreIdle

\* find_enhanced_outbound_opportunities(new_url, all_urls, content_cache,
\* content_analyzer, min_relevance, max_results), called by any caller
OutboundCall ==
    /\ phase = "find"
    /\ \E new_url \in NewUrls, pair \in FinderArgs :
         LET min_relevance == pair[1]
             max_results == pair[2]
         IN  \E found \in {find_enhanced_outbound_opportunities(
                 new_url, all_urls, content_cache, content_analyzer,
                 min_relevance, max_results, random_state)} :
             /\ args' = [new_url |-> new_url, min_relevance |-> min_relevance,
                         max_results |-> max_results]
             /\ outbound' = Outcome(found)
             /\ random_state' = found.rng
    /\ phase' = "outbound"
    /\ UNCHANGED <<content_cache, indexVars, hash_secret, inbound,
                   first_run, penVars, scored>>

\* find_enhanced_inbound_opportunities(...), called with the same arguments;
\* the caller goes on whether or not the outbound call raised
InboundCall ==
    /\ phase = "outbound"
    /\ \E built \in {InboundRanked(
               args.new_url, all_urls, content_cache, content_analyzer,
               args.min_relevance, args.max_results)} :
         \E stream \in HashStreams(hash_secret, args.new_url, ScatterRadices(built)) :
           \E found \in {InboundScattered(built, args.new_url, args.max_results,
                                          random_state, stream)} :
             /\ inbound' = Outcome(found)
             /\ random_state' = found.rng
             /\ hash_secret' =
                 IF Len(built.ranked) > SCATTER_MIN_LEN
                 THEN Hashed(hash_secret, args.new_url, ScatterRadices(built), stream)
                 ELSE hash_secret
    /\ phase' = "inbound"
    /\ UNCHANGED <<content_cache, indexVars, args, outbound,
                   first_run, penVars, scored>>

CallerNext == OutboundCall \/ InboundCall

CallerSpec == CallerInit /\ [][CallerNext]_vars

---------------------------------------------------------------------------
(* The ContentAnalyzer on its own: any sequence of fit_content and         *)
(* get_similarity calls on one object.                                     *)

\* the texts a caller may hand to fit_content; '' is the empty text
Texts ==
    { TextOf(<<>>), TextOf(<<"seo", "links">>), TextOf(<<"news">>),
      TextOf(<<"the">>) }

IndexInit ==
    /\ content_analyzer = NewAnalyzer
    /\ last_fit = NeverFit
    /\ last_query = NoQuery
    /\ FindIdle
    /\ PenIdle
    /\ ScoreIdle

\* content_analyzer.fit_content(content_dict) with the first n URLs as keys
FitContent ==
    /\ \E n \in 0..MaxDocs : \E texts \in [1..n -> Texts] :
         /\ content_analyzer' =
                fit_content(content_analyzer, SubSeq(Sitemap, 1, n), texts)
         /\ last_fit' = FitCall(last_fit, SubSeq(Sitemap, 1, n), texts)
    /\ last_query' = NoQuery
    /\ UNCHANGED <<findVars, penVars, scored>>

\* content_analyzer.get_similarity(url1, url2)
GetSimilarity ==
    /\ \E i \in 1..MaxDocs, j \in 1..MaxDocs :
         LET got == get_similarity(content_analyzer, Sitemap[i], Sitemap[j]) IN
         last_query' = [asked |-> TRUE, url1 |-> Sitemap[i], url2 |-> Sitemap[j],
                        raised |-> got.raised, value |-> got.value]
    /\ UNCHANGED <<content_analyzer, last_fit, findVars, penVars, scored>>

IndexNext == FitContent \/ GetSimilarity

IndexSpec == IndexInit /\ [][IndexNext]_vars

---------------------------------------------------------------------------
(* calculate_enhanced_relevance on its own: one call on a cache of two     *)
(* records, each present or missing, with the index fitted or not.         *)

\* the two URLs of such a cache and the third document of a fitted corpus
ScoreUrl1 == Sitemap[1]
ScoreUrls2 == {Sitemap[2], Sitemap[3]}
ScoreUrl3 == Sitemap[6]

ScoreTags ==
    { {}, {"news"}, {"seo", "links"}, {"seo", "links", "content"},
      {"seo", "links", "content", "news"} }

\* the word counts of the first record and of the second: an empty body, and
\* bodies whose depth scores 3/400, 3/900, 400/700 and 700/900 are not exact
\* in binary
ScoreWordCounts == {0, 3, 700}
ScoreWordCounts2 == {400, 900}

ScoreDates == {NoDate, DateTime(1, FALSE), DateTime(2, FALSE), DateTime(2, TRUE)}

ScorePages ==
    [ tags : ScoreTags, title : {<<"seo", "links">>},
      word_count : ScoreWordCounts, publish_date : ScoreDates ]

\* the pages the second record is paired from
ScorePages2 ==
    [ tags : {{}, {"seo", "links"}, {"seo", "links", "content", "news"}},
      title : {<<"seo", "links">>}, word_count : ScoreWordCounts2,
      publish_date : ScoreDates \ {DateTime(2, FALSE)} ]

\* the caches over url1 and url2: each URL has the record of a page or none
ScoreCaches(url1, url2) ==
    { [u \in {url1} |-> FetchedPage(url1, p)] : p \in ScorePages }
    \cup { [u \in {url2} |-> FetchedPage(url2, p)] : p \in ScorePages }
    \cup { [u \in {url1, url2} |->
              IF u = url1 THEN FetchedPage(url1, p) ELSE FetchedPage(url2, q)]
           : p \in ScorePages, q \in ScorePages2 }

\* the index never fitted, or fitted on the texts of url1, url2 and a third
\* document that shares no term with them
ScoreAnalyzers(url1, url2) ==
    { NewAnalyzer,
      fit_content(NewAnalyzer, <<url1, url2, ScoreUrl3>>,
                  << TextOf(<<"seo", "links">>), TextOf(<<"seo", "links">>),
                     TextOf(<<"news">>) >>) }

ScoreInit ==
    /\ \E url2 \in ScoreUrls2 :
         /\ content_cache \in ScoreCaches(ScoreUrl1, url2)
         /\ content_analyzer \in ScoreAnalyzers(ScoreUrl1, url2)
    /\ args = NoArgs
    /\ scored = NotScored
    /\ last_fit = NeverFit
    /\ last_query = NoQuery
    /\ phase = "idle"
    /\ hash_secret = <<>>
    /\ random_state = OsSeeded
    /\ outbound = NoOutcome
    /\ inbound = NoOutcome
    /\ first_run = NoOutcome
    /\ PenIdle

\* relevance = calculate_enhanced_relevance(url1, url2, content_cache,
\* content_analyzer, link_direction), for the two URLs in either order; the
\* function changes nothing, so one call per cache shows all it does
CalculateRelevance ==
    /\ scored = NotScored
    /\ \E other \in ScoreUrls2, url1 \in {ScoreUrl1} \cup ScoreUrls2,
          link_direction \in {"outbound", "inbound"} :
         LET url2 == IF url1 = ScoreUrl1 THEN other ELSE ScoreUrl1 IN
         /\ DOMAIN content_cache \subseteq {ScoreUrl1, other}
         /\ url1 \in {ScoreUrl1, other}
         /\ scored' = [ called |-> TRUE, url1 |-> url1, url2 |-> url2,
                     link_direction |-> link_direction,
                     relevance |-> calculate_enhanced_relevance(
                         url1, url2, content_cache, content_analyzer,
                         link_direction) ]
    /\ UNCHANGED <<runVars, penVars>>

ScoreNext == CalculateRelevance

ScoreSpec == ScoreInit /\ [][ScoreNext]_vars

---------------------------------------------------------------------------
(* The finders called on a corpus whose candidates crowd one silo: the new *)
(* article and seven pages, six of them under /blog.  The caller hands the *)
(* records (of any word count) and an unfitted analyzer, and a result      *)
(* count that makes the 2 * max_results cut drop a candidate.              *)

CrowdedUrls ==
    << <<"news", "seo">>, <<"blog", "links">>, <<"blog", "tips">>,
       <<"blog", "audit">>, <<"blog", "guides">>, <<"Blog", "links">>,
       <<"Blog", "tips">>, <<"guides", "tips">> >>

CrowdedNewUrl == CrowdedUrls[1]

\* the pages a URL of the crowded corpus may turn out to be
CrowdedPagesFor(i) ==
    IF i = 1 THEN {PagePillar} ELSE {PageOld, PageFresh}

\* the caches a caller may hand to the finders for the crowded corpus
CrowdedCaches ==
    { [u \in {CrowdedUrls[i] : i \in 1..Len(CrowdedUrls)} |->
          ContentRecord(u, pages[IndexOf(CrowdedUrls, u)])]
      : pages \in { f \in [1..Len(CrowdedUrls) -> {PagePillar, PageOld, PageFresh}] :
                       \A i \in 1..Len(CrowdedUrls) : f[i] \in CrowdedPagesFor(i) } }

CrowdedMinRelevances == {0, 30}
CrowdedMaxResults == {2, 3}

CrowdedInit ==
    /\ content_cache \in CrowdedCaches
    /\ phase = "find"
    /\ hash_secret = <<>>
    /\ random_state = OsSeeded
    /\ args = NoArgs
    /\ outbound = NoOutcome
    /\ inbound = NoOutcome
    /\ first_run = NoOutcome
    /\ content_analyzer = NewAnalyzer
    /\ last_fit = NeverFit
    /\ last_query = NoQuery
    /\ PenIdle
    /\ ScoreIdle

CrowdedOutboundCall ==
    /\ phase = "find"
    /\ \E min_relevance \in CrowdedMinRelevances, max_results \in CrowdedMaxResults :
         \E found \in {find_enhanced_outbound_opportunities(
                 CrowdedNewUrl, CrowdedUrls, content_cache, content_analyzer,
                 min_relevance, max_results, random_state)} :
             /\ args' = [new_url |-> CrowdedNewUrl, min_relevance |-> min_relevance,
                         max_results |-> max_results]
             /\ outbound' = Outcome(found)
             /\ random_state' = found.rng
    /\ phase' = "outbound"
    /\ UNCHANGED <<content_cache, indexVars, hash_secret, inbound,
                   first_run, penVars, scored>>

CrowdedInboundCall ==
    /\ phase = "outbound"
    /\ \E built \in {InboundRanked(
               args.new_url, CrowdedUrls, content_cache, content_analyzer,
               args.min_relevance, args.max_results)} :
         \E stream \in HashStreams(hash_secret, args.new_url, ScatterRadices(built)) :
           \E found \in {InboundScattered(built, args.new_url, args.max_results,
                                          random_state, stream)} :
             /\ inbound' = Outcome(found)
             /\ random_state' = found.rng
             /\ hash_secret' =
                 IF Len(built.ranked) > SCATTER_MIN_LEN
                 THEN Hashed(hash_secret, args.new_url, ScatterRadices(built), stream)
                 ELSE hash_secret
    /\ phase' = "inbound"
    /\ UNCHANGED <<content_cache, indexVars, args, outbound,
                   first_run, penVars, scored>>

CrowdedNext == CrowdedOutboundCall \/ CrowdedInboundCall

CrowdedSpec == CrowdedInit /\ [][CrowdedNext]_vars

---------------------------------------------------------------------------
(* The specification of the penalizer on its own *)

PenInit ==
    /\ opportunities = <<>>
    /\ max_per_silo \in {1, MAX_LINKS_PER_SILO}
    /\ passes = 0
    /\ before = <<>>
    /\ resorted = FALSE
    /\ ScoreIdle
    /\ RunIdle

\* the caller appends the next opportunity of a list sorted by descending score
AddOpportunity ==
    /\ passes = 0
    /\ Len(opportunities) < MaxOpps
    /\ \E opp \in PenOpps :
         /\ opportunities # <<>> =>
              FLeq(opp.final_score, opportunities[Len(opportunities)].final_score)
         /\ opportunities' = Append(opportunities, opp)
    /\ UNCHANGED <<max_per_silo, passes, before, resorted, runVars, scored>>

ApplyDiversityPenalties ==
    /\ opportunities # <<>>
    /\ passes < MaxPasses
    /\ passes > 0 => resorted
    /\ before' = opportunities
    /\ opportunities' = apply_diversity_penalties(opportunities, max_per_silo)
    /\ passes' = passes + 1
    /\ resorted' = FALSE
    /\ UNCHANGED <<max_per_silo, runVars, scored>>

\* the caller's sorted(..., reverse=True) after a pass
Resort ==
    /\ passes > 0
    /\ ~resorted
    /\ opportunities' = SortedByScoreDesc(opportunities)
    /\ resorted' = TRUE
    /\ UNCHANGED <<max_per_silo, passes, before, runVars, scored>>

PenNext == AddOpportunity \/ ApplyDiversityPenalties \/ Resort

PenSpec == PenInit /\ [][PenNext]_vars

---------------------------------------------------------------------------
(* Properties of the penalizer (PenSpec) *)

\* the pass that has just run took `before` and left `opportunities`
JustPenalized == passes >= 1 /\ ~resorted

\* how many of the first i entries of a list share the silo of the i-th
RankInSilo(opps, i) ==
    Cardinality({j \in 1..i : SiloOfOpp(opps[j]) = SiloOfOpp(opps[i])})

\* the share of its score an entry keeps when it is the k-th of its silo and
\* `allowed` entries go unpenalized, k > allowed: the floats 0.85, 0.70,
\* 0.55 and 0.50
KeptShare(k, allowed) ==
    CASE k = allowed + 1  -> FDivInt(85, 100)
      [] k = allowed + 2  -> FDivInt(70, 100)
      [] k = allowed + 3  -> FDivInt(55, 100)
      [] OTHER            -> FDivInt(50, 100)

\* C1: a second pass of apply_diversity_penalties, same maxPerSilo, over the
\* penalized and re-sorted list changes no opportunity's final_score.
C1_SecondPassChangesNoScore ==
    (passes = 2 /\ ~resorted) =>
        \A i \in 1..Len(opportunities) :
            opportunities[i].final_score = before[i].final_score

\* C2: one pass multiplies the score of the k-th entry of a silo by
\* max(0.5, 1 - 0.15 * (k - maxPerSilo)) when k > maxPerSilo, that is by the
\* floats 0.85, 0.70, 0.55 and then 0.50, and keeps it otherwise, so that no
\* entry loses more than half of its score.
C2_PenaltyMultiplier ==
    JustPenalized =>
        /\ Len(opportunities) = Len(before)
        /\ \A i \in 1..Len(before) :
             LET k == RankInSilo(before, i) IN
             /\ k <= max_per_silo =>
                    opportunities[i].final_score = before[i].final_score
             /\ k > max_per_silo =>
                    opportunities[i].final_score =
                        FMul(before[i].final_score, KeptShare(k, max_per_silo))
             /\ FLeq(before[i].final_score,
                     FMul(opportunities[i].final_score, FFromInt(2)))

\* C2 witness: with maxPerSilo = 2, six entries of one silo went through a
\* pass: the 3rd kept 85%, the 4th 70% and the 6th exactly half; the 5th, of
\* score 100.0, became 100.0 * 0.55, a float above 55.
C2_SixthOfSiloHalved ==
    /\ passes = 1 /\ ~resorted
    /\ max_per_silo = 2
    /\ Len(before) = 6
    /\ \A i \in 1..6 : SiloOfOpp(before[i]) = "blog" /\ before[i].final_score # FZero
    /\ opportunities[3].final_score = FMul(before[3].final_score, FDivInt(85, 100))
    /\ opportunities[4].final_score = FMul(before[4].final_score, FDivInt(70, 100))
    /\ before[5].final_score = FFromInt(100)
    /\ FLess(FFromInt(55), opportunities[5].final_score)
    /\ FMul(opportunities[6].final_score, FFromInt(2)) = before[6].final_score

\* C19: a pass changes nothing but final_score and the diversity_penalty
\* flag: the list keeps its length and order, every other field of every
\* entry is unchanged, and the flag is true exactly on the entries that were
\* the k-th of their silo with k > maxPerSilo.
C19_OnlyScoreAndFlagChange ==
    JustPenalized =>
        /\ Len(opportunities) = Len(before)
        /\ \A i \in 1..Len(before) :
             /\ DOMAIN opportunities[i] = DOMAIN before[i] \cup {"diversity_penalty"}
             /\ \A x \in DOMAIN before[i] \ {"final_score", "diversity_penalty"} :
                    opportunities[i][x] = before[i][x]
             /\ opportunities[i].diversity_penalty
                    <=> RankInSilo(before, i) > max_per_silo
             /\ ~opportunities[i].diversity_penalty =>
                    opportunities[i].final_score = before[i].final_score

\* a first pass with maxPerSilo = 2 over entries of two silos, carrying
\* either silo key: the second "blog" entry stays unflagged, the third is
\* flagged, and a "root" entry keeps its place among them
C19_ThirdOfSiloFlagged ==
    /\ passes = 1 /\ ~resorted
    /\ max_per_silo = 2
    /\ \E i, j, k \in 1..Len(before) :
          /\ i < j /\ j < k
          /\ "target_silo" \in DOMAIN before[i]
          /\ "source_silo" \in DOMAIN before[k]
          /\ SiloOfOpp(before[j]) = "root" /\ SiloOfOpp(opportunities[j]) = "root"
          /\ RankInSilo(before, i) = 2 /\ ~opportunities[i].diversity_penalty
          /\ RankInSilo(before, k) = 3 /\ opportunities[k].diversity_penalty
          /\ FLess(opportunities[k].final_score, before[k].final_score)

---------------------------------------------------------------------------
(* Properties of the finders (Spec) *)

\* the candidates of a finder call: every URL of the corpus but the pivot
CandidateUrls == {all_urls[i] : i \in 1..Len(all_urls)} \ {args.new_url}

\* the score breakdown of a candidate, before any boost
OutboundRelevance(url) ==
    calculate_enhanced_relevance(args.new_url, url, content_cache,
                                 content_analyzer, "outbound")

InboundRelevance(url) ==
    calculate_enhanced_relevance(url, args.new_url, content_cache,
                                 content_analyzer, "inbound")

\* the candidates whose unboosted score reaches the threshold
OutboundPassing ==
    {u \in CandidateUrls :
        FGeqInt(OutboundRelevance(u).final_score, args.min_relevance)}

InboundPassing ==
    {u \in CandidateUrls :
        FGeqInt(InboundRelevance(u).final_score, args.min_relevance)}

UrlsOf(opps) == {opps[i].url : i \in 1..Len(opps)}

\* the entry of a list of opportunities for a URL
EntryOf(opps, url) == opps[CHOOSE i \in 1..Len(opps) : opps[i].url = url]

\* the multipliers of the penalizer
PenaltyShares == {FDivInt(85, 100), FDivInt(70, 100), FDivInt(55, 100), FDivInt(50, 100)}

\* every ranked entry is an admitted candidate whose boosted score went
\* through the penalizer: kept, or multiplied by 0.85, 0.70, 0.55 or 0.50
RankedFromAdmitted(found) ==
    \A i \in 1..Len(found.ranked) :
        /\ found.ranked[i].url \in UrlsOf(found.admitted)
        /\ LET boosted == EntryOf(found.admitted, found.ranked[i].url).final_score
               final == found.ranked[i].final_score
           IN  IF found.ranked[i].diversity_penalty
               THEN \E share \in PenaltyShares : final = FMul(boosted, share)
               ELSE final = boosted

\* C3: a candidate is admitted exactly when its unboosted score reaches
\* minRelevance; the boost comes after the threshold, so a candidate below it
\* is in no result, and the penalizer works on the boosted scores of the
\* admitted candidates only.
C3_ThresholdThenBoostThenPenalty ==
    /\ outbound.status = "returned" =>
          /\ UrlsOf(outbound.admitted) = OutboundPassing
          /\ UrlsOf(outbound.opportunities) \subseteq UrlsOf(outbound.admitted)
          /\ \A i \in 1..Len(outbound.admitted) :
                FLeq(OutboundRelevance(outbound.admitted[i].url).final_score,
                     outbound.admitted[i].final_score)
          /\ RankedFromAdmitted(outbound)
    /\ inbound.status = "returned" =>
          /\ UrlsOf(inbound.admitted) = InboundPassing
          /\ UrlsOf(inbound.opportunities) \subseteq UrlsOf(inbound.admitted)
          /\ \A i \in 1..Len(inbound.admitted) :
                FLeq(InboundRelevance(inbound.admitted[i].url).final_score,
                     inbound.admitted[i].final_score)
          /\ RankedFromAdmitted(inbound)

\* C3 witness: both finders returned, and each left out a candidate whose
\* score is below the threshold but would reach it once boosted.
C3_BoostWouldHaveAdmitted ==
    /\ outbound.status = "returned"
    /\ inbound.status = "returned"
    /\ \E u \in CandidateUrls :
          /\ content_cache[u].word_count > 1500
          /\ ~FGeqInt(OutboundRelevance(u).final_score, args.min_relevance)
          /\ FGeqInt(FMul(OutboundRelevance(u).final_score, FDivInt(110, 100)),
                     args.min_relevance)
          /\ u \notin UrlsOf(outbound.admitted)
    /\ \E u \in CandidateUrls :
          /\ content_cache[u].publish_date.known
          /\ content_cache[args.new_url].publish_date.known
          /\ content_cache[u].publish_date.t > content_cache[args.new_url].publish_date.t
          /\ ~FGeqInt(InboundRelevance(u).final_score, args.min_relevance)
          /\ FGeqInt(FMul(InboundRelevance(u).final_score, FDivInt(115, 100)),
                     args.min_relevance)
          /\ u \notin UrlsOf(inbound.admitted)

\* C4: in the list the inbound finder returns, an opportunity placed ahead of
\* another has a final score greater than the other's minus 5 points.
C4_ScatterStaysWithinBand ==
    inbound.status = "returned" =>
        \A i \in 1..Len(inbound.opportunities) :
            \A j \in (i + 1)..Len(inbound.opportunities) :
                \/ FLess(inbound.opportunities[j].final_score, FFromInt(5))
                \/ FLess(FSub(inbound.opportunities[j].final_score, FFromInt(5)),
                         inbound.opportunities[i].final_score)

\* C4 witness: the scatter ran on more than five entries and put a lower
\* score ahead of a higher one, in a returned list that also has two entries
\* 5 points or more apart.
C4_ScatteredAcrossListWithGap ==
    /\ inbound.status = "returned"
    /\ Len(inbound.ranked) > 5
    /\ \E i \in 1..Len(inbound.opportunities) :
         \E j \in (i + 1)..Len(inbound.opportunities) :
            FLess(inbound.opportunities[i].final_score,
                  inbound.opportunities[j].final_score)
    /\ \E i \in 1..Len(inbound.opportunities) :
         \E j \in (i + 1)..Len(inbound.opportunities) :
            FLeq(FAdd(inbound.opportunities[j].final_score, FFromInt(5)),
                 inbound.opportunities[i].final_score)

\* C5: a second process, given the same pivot, corpus, records, minRelevance
\* and maxResults, returns the inbound opportunities in the same order.
C5_SameOrderInEveryProcess ==
    (first_run.status = "returned" /\ inbound.status = "returned") =>
        inbound.opportunities = first_run.opportunities

\* where a URL stands in all_urls
CorpusIndex(url) == CHOOSE i \in 1..Len(all_urls) : all_urls[i] = url

\* C6: in the list the outbound finder returns, two opportunities with equal
\* final scores stand in the order of their URLs in all_urls.
C6_TiesInCorpusOrder ==
    outbound.status = "returned" =>
        \A i \in 1..Len(outbound.opportunities) :
            \A j \in (i + 1)..Len(outbound.opportunities) :
                outbound.opportunities[i].final_score =
                    outbound.opportunities[j].final_score
                => CorpusIndex(outbound.opportunities[i].url) <
                       CorpusIndex(outbound.opportunities[j].url)

\* the score an opportunity of a finder's result had before the penalizer
BoostedScore(found, opp) == EntryOf(found.admitted, opp.url).final_score

\* C6 amended: two returned opportunities with equal final scores stand in
\* the order of the first sort: the higher boosted (pre-penalty) score first,
\* and the order of all_urls when the boosted scores are equal too.
C6_TiesInFirstSortOrder ==
    outbound.status = "returned" =>
        \A i \in 1..Len(outbound.opportunities) :
            \A j \in (i + 1)..Len(outbound.opportunities) :
                outbound.opportunities[i].final_score =
                    outbound.opportunities[j].final_score
                => LET bi == BoostedScore(outbound, outbound.opportunities[i])
                       bj == BoostedScore(outbound, outbound.opportunities[j])
                   IN  \/ FLess(bj, bi)
                       \/ /\ bi = bj
                          /\ CorpusIndex(outbound.opportunities[i].url) <
                                 CorpusIndex(outbound.opportunities[j].url)

\* C6 witness: the returned list has a tie between two unpenalized entries
\* and a tie a penalty produced, the penalized entry standing first although
\* its URL comes later in all_urls.
C6_PenaltyTieReturned ==
    /\ outbound.status = "returned"
    /\ \E i \in 1..Len(outbound.opportunities) :
         \E j \in (i + 1)..Len(outbound.opportunities) :
            /\ outbound.opportunities[i].final_score =
                   outbound.opportunities[j].final_score
            /\ ~outbound.opportunities[i].diversity_penalty
            /\ ~outbound.opportunities[j].diversity_penalty
    /\ \E i \in 1..Len(outbound.opportunities) :
         \E j \in (i + 1)..Len(outbound.opportunities) :
            /\ outbound.opportunities[i].final_score =
                   outbound.opportunities[j].final_score
            /\ outbound.opportunities[i].diversity_penalty
            /\ FLess(BoostedScore(outbound, outbound.opportunities[j]),
                     BoostedScore(outbound, outbound.opportunities[i]))
            /\ CorpusIndex(outbound.opportunities[i].url) >
                   CorpusIndex(outbound.opportunities[j].url)

\* the finders were called with arguments outside their contract
ArgsOutOfRange ==
    \/ args.min_relevance < 0
    \/ args.min_relevance > 100
    \/ args.max_results <= 0

\* C7: a finder called with minRelevance outside [0,100] or maxResults <= 0
\* ends in an error and returns no opportunity list.
C7_OutOfRangeArgsRejected ==
    ArgsOutOfRange =>
        /\ outbound.status # "returned"
        /\ inbound.status # "returned"

\* every record of the cache is one fetch_page_content can return: its body
\* text is cut to 1000 words before they are counted
ScraperProducible ==
    \A url \in DOMAIN content_cache : content_cache[url].word_count <= 1000

\* C8: the finders, and calculate_enhanced_relevance under them, never raise
\* for records the scraper can produce, failed fetches and dates with and
\* without a UTC offset included.
C8_FindersNeverRaise ==
    ScraperProducible =>
        /\ outbound.status # "raised"
        /\ inbound.status # "raised"

\* C10: an admitted outbound candidate has its score times 1.10 when its
\* word_count is above 1500 and unchanged otherwise; an admitted inbound
\* candidate has its score times 1.15 when pivot and candidate are dated and
\* the candidate's date is strictly later, and unchanged otherwise.
C10_ExactBoosts ==
    /\ outbound.status = "returned" =>
          \A i \in 1..Len(outbound.admitted) :
              LET url == outbound.admitted[i].url IN
              outbound.admitted[i].final_score =
                  IF content_cache[url].word_count > 1500
                  THEN FMul(OutboundRelevance(url).final_score, FDivInt(110, 100))
                  ELSE OutboundRelevance(url).final_score
    /\ inbound.status = "returned" =>
          \A i \in 1..Len(inbound.admitted) :
              LET url == inbound.admitted[i].url
                  pivot_date == content_cache[args.new_url].publish_date
                  date == content_cache[url].publish_date
              IN  inbound.admitted[i].final_score =
                      IF pivot_date.known /\ date.known /\ date.t > pivot_date.t
                      THEN FMul(InboundRelevance(url).final_score, FDivInt(115, 100))
                      ELSE InboundRelevance(url).final_score

\* C10 witness: the outbound finder admitted a candidate of exactly 1500
\* words, unboosted, and a longer one, boosted; the inbound finder admitted a
\* later candidate, boosted, and, unboosted, one of the pivot's date and one
\* without a date.
C10_BoostedAndUnboostedAdmitted ==
    /\ outbound.status = "returned"
    /\ inbound.status = "returned"
    /\ \E i, j \in 1..Len(outbound.admitted) :
          /\ outbound.admitted[i].word_count = 1500
          /\ outbound.admitted[i].final_score =
                 OutboundRelevance(outbound.admitted[i].url).final_score
          /\ outbound.admitted[j].word_count > 1500
          /\ FLess(OutboundRelevance(outbound.admitted[j].url).final_score,
                   outbound.admitted[j].final_score)
    /\ content_cache[args.new_url].publish_date.known
    /\ \E i, j, k \in 1..Len(inbound.admitted) :
          /\ inbound.admitted[i].publish_date.known
          /\ inbound.admitted[i].publish_date.t >
                 content_cache[args.new_url].publish_date.t
          /\ FLess(InboundRelevance(inbound.admitted[i].url).final_score,
                   inbound.admitted[i].final_score)
          /\ inbound.admitted[j].publish_date =
                 content_cache[args.new_url].publish_date
          /\ inbound.admitted[j].final_score =
                 InboundRelevance(inbound.admitted[j].url).final_score
          /\ ~inbound.admitted[k].publish_date.known
          /\ inbound.admitted[k].final_score =
                 InboundRelevance(inbound.admitted[k].url).final_score

---------------------------------------------------------------------------
(* Properties of the ContentAnalyzer (IndexSpec) *)

\* C9: get_similarity returns 0 and does not raise when the index is unfit
\* (fit_content never called, skipped or failed) or one of the URLs was not
\* among the keys given to fit_content.
C9_UnfitOrAbsentGivesZero ==
    ( /\ last_query.asked
      /\ \/ last_fit.ended # "fitted"
         \/ ~InSeq(last_fit.keys, last_query.url1)
         \/ ~InSeq(last_fit.keys, last_query.url2) )
    => (~last_query.raised /\ last_query.value = 0)

\* C16: whenever a fitted matrix is present, the stored URL list is the key
\* list of the corpus the matrix was built from, row i belonging to URL i; a
\* fit_content call that skips fitting leaves the index unfit or aligned.
C16_UrlsAlignedWithMatrix ==
    content_analyzer.tfidf_matrix.present =>
        /\ content_analyzer.urls = last_fit.built_from
        /\ Len(content_analyzer.tfidf_matrix.rows) = Len(content_analyzer.urls)

---------------------------------------------------------------------------
(* Properties of calculate_enhanced_relevance (ScoreSpec) *)

\* the call returned a score breakdown
Scored == scored.called /\ ~scored.relevance.raised

\* the record the call reads for a URL: content_cache.get(url, {}) and the
\* defaults of its fields
ScoredTags(url) ==
    IF url \in DOMAIN content_cache THEN content_cache[url].tags ELSE {}

ScoredDate(url) ==
    IF url \in DOMAIN content_cache THEN content_cache[url].publish_date ELSE NoDate

\* C11: the temporal sub-score of calculate_enhanced_relevance(A, B, direction)
\* is 50 when a publish date is missing; otherwise inbound gives 70 if
\* dateA > dateB and 30 if not, outbound gives 70 if dateB < dateA and 50 if
\* not, so that an outbound temporal score is never below 50.
C11_TemporalScore ==
    Scored =>
        LET dateA == ScoredDate(scored.url1)
            dateB == ScoredDate(scored.url2)
            temporal == scored.relevance.temporal_score
        IN  /\ (~dateA.known \/ ~dateB.known) => temporal = 5000
            /\ (dateA.known /\ dateB.known /\ scored.link_direction = "inbound")
                  => temporal = (IF dateA.t > dateB.t THEN 7000 ELSE 3000)
            /\ (dateA.known /\ dateB.known /\ scored.link_direction = "outbound")
                  => temporal = (IF dateB.t < dateA.t THEN 7000 ELSE 5000)
            /\ scored.link_direction = "outbound" => temporal >= 5000

\* C11 witness: an outbound call whose target is the later page scored 50,
\* where the inbound call on the same pair gives 30.
C11_OutboundLaterTargetNeutral ==
    /\ Scored
    /\ scored.link_direction = "outbound"
    /\ ScoredDate(scored.url1).known
    /\ ScoredDate(scored.url2).known
    /\ ScoredDate(scored.url2).t > ScoredDate(scored.url1).t
    /\ scored.relevance.temporal_score = 5000
    /\ calculate_enhanced_relevance(scored.url1, scored.url2, content_cache,
                                    content_analyzer, "inbound").temporal_score = 3000

\* the tag sub-score, in hundredths of a point, for n common tags
TagPoints(n) ==
    CASE n = 0 -> 0
      [] n = 1 -> 5500
      [] n = 2 -> 8000
      [] OTHER -> 10000

\* C12: the tag sub-score is 0 without a common tag and min(100, 30 + 25 n)
\* with n >= 1 common tags (55, 80, then 100 from 3 on), and it is the same
\* when the two documents are swapped.
C12_TagScore ==
    Scored =>
        LET n == Cardinality(ScoredTags(scored.url1) \cap ScoredTags(scored.url2))
            swapped == calculate_enhanced_relevance(
                scored.url2, scored.url1, content_cache, content_analyzer,
                scored.link_direction)
        IN  /\ scored.relevance.tag_score = TagPoints(n)
            /\ ~swapped.raised
            /\ swapped.tag_score = scored.relevance.tag_score

\* C12 witness: a call on two documents with four common tags scored 100.
C12_FourCommonTagsCapped ==
    /\ Scored
    /\ Cardinality(ScoredTags(scored.url1) \cap ScoredTags(scored.url2)) = 4
    /\ ScoredTags(scored.url1) = ScoredTags(scored.url2)
    /\ scored.relevance.tag_score = 10000

\* the weight profiles as the documentation states them, in percent
StatedWeights ==
    [outbound |-> <<25, 35, 10, 10, 10, 10>>,
     inbound  |-> <<20, 30, 10, 10, 15, 15>>]

\* the six sub-scores of the last call, in hundredths of a point
ScoredSubScores ==
    <<scored.relevance.tag_score, scored.relevance.content_score,
      scored.relevance.path_score, scored.relevance.depth_score,
      scored.relevance.temporal_score, scored.relevance.diversity_score>>

RECURSIVE Dot(_, _)
Dot(w, x) == IF w = <<>> THEN 0 ELSE Head(w) * Head(x) + Dot(Tail(w), Tail(x))

\* C13: the final score is the weighted sum of the six sub-scores with the
\* outbound weights .25 .35 .10 .10 .10 .10 or the inbound weights
\* .20 .30 .10 .10 .15 .15; each profile sums to 1, so the score lies in
\* [0, 100].  The returned sub-scores and the final score are each rounded
\* to two decimals, hence the tolerance of one hundredth of a point.
C13_WeightedSum ==
    /\ \A d \in DOMAIN StatedWeights :
           Dot(StatedWeights[d], <<1, 1, 1, 1, 1, 1>>) = 100
    /\ Scored =>
          LET final == FRound2(scored.relevance.final_score)
              sum == Dot(StatedWeights[scored.link_direction], ScoredSubScores)
          IN /\ scored.relevance.final_score = FHundredths(final)
             /\ 100 * final - sum <= 100
             /\ sum - 100 * final <= 100
             /\ 0 <= final /\ final <= 10000
             /\ \A i \in 1..6 : 0 <= ScoredSubScores[i] /\ ScoredSubScores[i] <= 10000

\* an inbound call whose six sub-scores are all positive, with a depth score
\* that is not a whole number of points
C13_InboundAllSubScoresPositive ==
    /\ Scored
    /\ scored.link_direction = "inbound"
    /\ \A i \in 1..6 : ScoredSubScores[i] > 0
    /\ scored.relevance.depth_score = 7778
    /\ scored.relevance.temporal_score = 7000
    /\ scored.relevance.content_score = 10000

\* C14: in an analysis that never fits the index, the content sub-score of
\* every pair is 0 and the weights stay as they are, so no unboosted outbound
\* score exceeds 65 points and no unboosted inbound score exceeds 70.
C14_UnfitContentScoreZero ==
    (phase \in {"outbound", "inbound"} /\ last_fit.ended = "never") =>
        /\ \A u \in CandidateUrls :
              LET to_target == OutboundRelevance(u)
                  to_pivot == InboundRelevance(u)
              IN  /\ ~to_target.raised =>
                        /\ to_target.content_score = 0
                        /\ FLeq(to_target.final_score, FFromInt(65))
                  /\ ~to_pivot.raised =>
                        /\ to_pivot.content_score = 0
                        /\ FLeq(to_pivot.final_score, FFromInt(70))
        /\ \A found \in {outbound, inbound} :
              \A i \in 1..Len(found.admitted) : found.admitted[i].content_score = 0

\* an analysis without the semantic model in which both finders return a
\* candidate that shares two tags with the pivot
C14_UnfitRunReturnsTagMatch ==
    /\ phase = "inbound"
    /\ last_fit.ended = "never"
    /\ outbound.status = "returned" /\ inbound.status = "returned"
    /\ \E i \in 1..Len(outbound.opportunities) :
          /\ outbound.opportunities[i].tag_score = 8000
          /\ outbound.opportunities[i].content_score = 0
    /\ \E i \in 1..Len(inbound.opportunities) :
          /\ inbound.opportunities[i].tag_score = 8000
          /\ inbound.opportunities[i].content_score = 0

---------------------------------------------------------------------------
(* The reference pipeline of the outbound finder, stated on its own: each  *)
(* entry is a URL with its score and its penalty flag.                     *)

\* every corpus URL other than the pivot whose unboosted score reaches the
\* threshold, in corpus order, with its boosted score
RefPasses(url) ==
    /\ url # args.new_url
    /\ FGeqInt(OutboundRelevance(url).final_score, args.min_relevance)

RefBoosted(url) ==
    LET score == OutboundRelevance(url).final_score
    IN  IF CacheGet(content_cache, url).word_count > 1500
        THEN FMul(score, FDivInt(110, 100)) ELSE score

RefEntry(url) == [url |-> url, final_score |-> RefBoosted(url), penalized |-> FALSE]

RECURSIVE RefAdmitted(_)
RefAdmitted(urls) ==
    IF urls = <<>> THEN <<>>
    ELSE IF RefPasses(Head(urls))
    THEN <<RefEntry(Head(urls))>> \o RefAdmitted(Tail(urls))
    ELSE RefAdmitted(Tail(urls))

\* the place of entry i in the list sorted by descending score, entries with
\* equal scores keeping their order
RefPlace(seq, i) ==
    1 + Cardinality({j \in 1..Len(seq) : FLess(seq[i].final_score, seq[j].final_score)})
      + Cardinality({j \in 1..(i - 1) : seq[j].final_score = seq[i].final_score})

RefSortDesc(seq) ==
    [k \in 1..Len(seq) |-> seq[CHOOSE i \in 1..Len(seq) : RefPlace(seq, i) = k]]

RefFirst(seq, n) == [k \in 1..(IF n < Len(seq) THEN n ELSE Len(seq)) |-> seq[k]]

\* the k-th entry of a silo, k > maxPerSilo, has its score multiplied by
\* 1 - 0.15 (k - maxPerSilo), and never by less than a half
RefPenalize(seq, maxPerSilo) ==
    [i \in 1..Len(seq) |->
        LET k == Cardinality({j \in 1..i : extract_silo_from_url(seq[j].url) =
                                             extract_silo_from_url(seq[i].url)})
            hundredths == IF 100 - 15 * (k - maxPerSilo) < 50 THEN 50
                          ELSE 100 - 15 * (k - maxPerSilo)
        IN  IF k > maxPerSilo
            THEN [url |-> seq[i].url,
                  final_score |-> FMul(seq[i].final_score, FDivInt(hundredths, 100)),
                  penalized |-> TRUE]
            ELSE seq[i]]

RefOutbound ==
    RefFirst(RefSortDesc(RefPenalize(
                 RefFirst(RefSortDesc(RefAdmitted(all_urls)), 2 * args.max_results),
                 2)),
             args.max_results)

\* the URL, score and penalty flag of each returned opportunity
Returned(found) ==
    [i \in 1..Len(found.opportunities) |->
        [url |-> found.opportunities[i].url,
         final_score |-> found.opportunities[i].final_score,
         penalized |-> found.opportunities[i].diversity_penalty]]

\* C15: for maxResults >= 1 the outbound finder returns exactly the first
\* maxResults entries of the reference pipeline (filter, boost, sort, keep
\* 2*maxResults, penalize with maxPerSilo 2, re-sort); so the result never
\* holds the pivot, has min(maxResults, number admitted) entries and is in
\* non-increasing order of final score.
C15_OutboundIsReferencePipeline ==
    (outbound.status = "returned" /\ args.max_results >= 1) =>
        /\ Returned(outbound) = RefOutbound
        /\ args.new_url \notin UrlsOf(outbound.opportunities)
        /\ Len(outbound.opportunities) =
               Min(args.max_results, Len(RefAdmitted(all_urls)))
        /\ \A i \in 1..(Len(outbound.opportunities) - 1) :
               FLeq(outbound.opportunities[i + 1].final_score,
                    outbound.opportunities[i].final_score)

\* a call that admits more than 2*maxResults candidates, boosts one of them
\* and not another, cuts the list and returns a penalized opportunity
C15_BufferCutAndPenalized ==
    /\ outbound.status = "returned"
    /\ args.max_results = 2
    /\ Len(outbound.admitted) > 2 * args.max_results
    /\ Len(outbound.opportunities) = 2
    /\ \E i \in 1..Len(outbound.ranked) : outbound.ranked[i].diversity_penalty
    /\ \E i, j \in 1..Len(outbound.admitted) :
          /\ FLess(OutboundRelevance(outbound.admitted[i].url).final_score,
                   outbound.admitted[i].final_score)
          /\ outbound.admitted[j].final_score =
                 OutboundRelevance(outbound.admitted[j].url).final_score

---------------------------------------------------------------------------
(* The groups of the inbound tie-scatter *)

\* the inbound finder ran its tie-scatter
Scattered == inbound.status = "returned" /\ Len(inbound.ranked) > 5

\* the positions of the sorted list at which a shuffle group ends
RECURSIVE GroupEnds(_, _)
GroupEnds(groups, before_them) ==
    IF groups = <<>> THEN {}
    ELSE {before_them + Len(Head(groups))}
         \cup GroupEnds(Tail(groups), before_them + Len(Head(groups)))

\* neighbours i and i + 1 of the sorted list are in the same shuffle group
SameGroup(i) == i \notin GroupEnds(ScoreGroups(inbound.ranked), 0)

\* C17: two neighbouring entries of the sorted list are in the same shuffle
\* group exactly when their final scores differ by less than 5.
C17_GroupsByConsecutiveDifference ==
    Scattered =>
        \A i \in 1..(Len(inbound.ranked) - 1) :
            SameGroup(i) <=>
                FLess(FAbsDiff(inbound.ranked[i].final_score,
                               inbound.ranked[i + 1].final_score), FFromInt(5))

\* the position of the first entry of the group of position i: a group runs
\* on while the scores stay less than 5 below its first score
RECURSIVE GroupFirst(_)
GroupFirst(i) ==
    IF i = 1 THEN 1
    ELSE IF FLess(FAbsDiff(inbound.ranked[GroupFirst(i - 1)].final_score,
                           inbound.ranked[i].final_score), FFromInt(5))
    THEN GroupFirst(i - 1)
    ELSE i

\* C17 amended: an entry of the sorted list is in the same shuffle group as
\* its predecessor exactly when its final score is less than 5 below the
\* score of the first entry of that group (so 100, 96, 92, 88 form the two
\* groups 100, 96 and 92, 88); every group spans less than 5 points.
C17_GroupsByDistanceFromFirst ==
    Scattered =>
        \A i \in 1..(Len(inbound.ranked) - 1) :
            /\ SameGroup(i) <=> GroupFirst(i + 1) = GroupFirst(i)
            /\ SameGroup(i) <=>
                  FLess(FAbsDiff(inbound.ranked[GroupFirst(i)].final_score,
                                 inbound.ranked[i + 1].final_score), FFromInt(5))

\* a scattered list with a chain: neighbours less than 5 apart that are in
\* different groups, the later one 5 or more below the first of the group
C17_ChainSplit ==
    /\ Scattered
    /\ \E i \in 1..(Len(inbound.ranked) - 1) :
          /\ FLess(FAbsDiff(inbound.ranked[i].final_score,
                            inbound.ranked[i + 1].final_score), FFromInt(5))
          /\ ~SameGroup(i)

---------------------------------------------------------------------------
(* The tie-scatter and the generator of the random module *)

\* C18: the tie-scatter draws from a generator private to the call: a call of
\* find_enhanced_inbound_opportunities leaves the state of the process-wide
\* generator as it found it.
C18_ProcessRandomStateUnchanged ==
    [][FindInbound => random_state' = random_state]_vars

---------------------------------------------------------------------------
(* The 2 * max_results cut (CrowdedSpec) *)

\* the admitted candidates the cut of a finder call dropped
OutsideBuffer(found) ==
    {found.admitted[i] : i \in 1..Len(found.admitted)}
        \ {opp \in {found.admitted[i] : i \in 1..Len(found.admitted)} :
               opp.url \in UrlsOf(found.ranked)}

\* a dropped candidate whose boosted score is above the final score of a
\* returned opportunity
BufferMissed(found) ==
    /\ found.status = "returned"
    /\ \E dropped \in OutsideBuffer(found) :
          \E i \in 1..Len(found.opportunities) :
              FLess(found.opportunities[i].final_score, dropped.final_score)

\* C20: the 2 * maxResults cut can drop an admitted candidate whose boosted
\* score is strictly above the final score of a returned opportunity.  The
\* cut keeps the highest boosted scores, so this happens only to returned
\* opportunities that the penalizer cut, never to an unpenalized one.
C20_BufferMissesOnlyByPenalty ==
    \A found \in {outbound, inbound} :
        found.status = "returned" =>
            \A dropped \in OutsideBuffer(found) :
                \A i \in 1..Len(found.ranked) :
                    /\ FLeq(dropped.final_score, BoostedScore(found, found.ranked[i]))
                    /\ FLess(found.ranked[i].final_score, dropped.final_score)
                          => found.ranked[i].diversity_penalty

\* the two calls on one corpus both return an opportunity scored below a
\* candidate that the cut dropped, the outbound call having boosted one of
\* its candidates
C20_BothFindersMiss ==
    /\ phase = "inbound"
    /\ BufferMissed(outbound)
    /\ BufferMissed(inbound)
    /\ \E i \in 1..Len(outbound.admitted) :
          FLess(OutboundRelevance(outbound.admitted[i].url).final_score,
                outbound.admitted[i].final_score)

---------------------------------------------------------------------------
(* The tie-scatter and the cut to max_results *)

\* the entries of a list as a set
EntriesOf(opps) == {opps[i] : i \in 1..Len(opps)}

\* the first n entries of the penalized and re-sorted list of the inbound call
TopRanked(n) ==
    {inbound.ranked[i] : i \in 1..(IF n < Len(inbound.ranked) THEN n
                                   ELSE Len(inbound.ranked))}

\* C21: the tie-scatter changes the order of the list only: for maxResults >= 1
\* the set of returned inbound opportunities is the set of the first
\* maxResults entries of the penalized, re-sorted list, so no returned
\* opportunity has a lower final score than a buffered one that was cut.
C21_ScatterKeepsMembership ==
    (inbound.status = "returned" /\ args.max_results >= 1) =>
        /\ EntriesOf(inbound.opportunities) = TopRanked(args.max_results)
        /\ \A kept \in EntriesOf(inbound.opportunities) :
              \A cut \in EntriesOf(inbound.ranked) \ EntriesOf(inbound.opportunities) :
                  FLeq(cut.final_score, kept.final_score)

---------------------------------------------------------------------------
(* The threshold and the returned scores *)

\* the returned opportunities of both finders, each with its unboosted score
ReturnedWithUnboosted ==
    {[opp |-> outbound.opportunities[i],
      unboosted |-> OutboundRelevance(outbound.opportunities[i].url).final_score]
        : i \in 1..Len(outbound.opportunities)}
    \cup
    {[opp |-> inbound.opportunities[i],
      unboosted |-> InboundRelevance(inbound.opportunities[i].url).final_score]
        : i \in 1..Len(inbound.opportunities)}

\* C22: every opportunity returned by either finder has a final_score of at
\* least the minRelevance the caller passed, whatever boosts and penalties
\* were applied.
C22_ReturnedScoreReachesThreshold ==
    \A found \in {outbound, inbound} :
        found.status = "returned" =>
            \A i \in 1..Len(found.opportunities) :
                FGeqInt(found.opportunities[i].final_score, args.min_relevance)

\* C22 amended: every returned opportunity has an unboosted weighted score of
\* at least minRelevance; its final_score is at least minRelevance when no
\* diversity penalty was applied to it and at least half of minRelevance
\* when one was.
C22_UnboostedScoreReachesThreshold ==
    \A r \in ReturnedWithUnboosted :
        /\ FGeqInt(r.unboosted, args.min_relevance)
        /\ ~r.opp.diversity_penalty =>
              /\ FLeq(r.unboosted, r.opp.final_score)
              /\ FGeqInt(r.opp.final_score, args.min_relevance)
        /\ FLeq(r.unboosted, FMul(r.opp.final_score, FFromInt(2)))
        /\ FGeqInt(FMul(r.opp.final_score, FFromInt(2)), args.min_relevance)

\* both finders, called with a threshold of 30, return a penalized
\* opportunity whose final score is below 30
C22_PenalizedBelowThreshold ==
    /\ args.min_relevance = 30
    /\ \A found \in {outbound, inbound} :
          /\ found.status = "returned"
          /\ \E i \in 1..Len(found.opportunities) :
                /\ found.opportunities[i].diversity_penalty
                /\ ~FGeqInt(found.opportunities[i].final_score, args.min_relevance)

=============================================================================
